---- MODULE Spec2Model ----
(***************************************************************************)
(* A model of the PDF viewer's search navigation (PDFViewer.tsx), the      *)
(* per-page search highlighting effect and render pipeline                 *)
(* (PageCanvas.tsx) and the search helpers (utils).                        *)
(*                                                                         *)
(* Strings are sequences of one-character strings.  Positions inside a     *)
(* string, item indices and match indices are 0-based as in the source;    *)
(* page numbers are 1-based as in the source.                              *)
(***************************************************************************)
EXTENDS Integers, Sequences, FiniteSets, TLC

(***************************************************************************)
(* Bounds of the model.                                                    *)
(***************************************************************************)
\* number of pages of the loaded document (state.numPages)
NumPages == 2

\* number of renderPage() invocations a page makes at most
MaxRenders == 4

\* number of handleSearchChange calls that arrive while the debounce timer of
\* the previous call is pending
MaxBurst == 2

Pages == 1..NumPages

(***************************************************************************)
(* The loaded document: the text items (str) that getTextContent() yields  *)
(* for each page.  Odd pages hold "ab", "A"; even pages hold "a a", "ba".  *)
(***************************************************************************)
PageItems(p) ==
    IF p % 2 = 1
    THEN << <<"a", "b">>, <<"A">> >>
    ELSE << <<"a", " ", "a">>, <<"b", "a">> >>

\* number of characters of the text items handed to a search function
MaxChars == 3

\* number of characters of the query handed to a search function
MaxQueryLen == 2

\* the largest viewport scale a text layer is built at
MaxScale == 2

\* the time, in milliseconds, up to which the debounce timer is followed
MaxTime == 1000

\* number of values the pdfUrl prop takes, each starting a load
MaxLoads == 3

\* the query texts a user types into the search input
Queries == { << >>, <<" ">>, <<"a">>, <<"b">> }

(***************************************************************************)
(* String helpers (JavaScript String methods used by utils).               *)
(***************************************************************************)
IsWhitespace(c) == c \in {" ", "\t", "\n"}

\* query.trim() as a truth value: non-empty after trimming
TrimNonEmpty(s) == \E i \in 1..Len(s) : ~IsWhitespace(s[i])

LowerLetters ==
    <<"a", "b", "c", "d", "e", "f", "g", "h", "i", "j", "k", "l", "m",
      "n", "o", "p", "q", "r", "s", "t", "u", "v", "w", "x", "y", "z">>

UpperLetters ==
    <<"A", "B", "C", "D", "E", "F", "G", "H", "I", "J", "K", "L", "M",
      "N", "O", "P", "Q", "R", "S", "T", "U", "V", "W", "X", "Y", "Z">>

ToLowerChar(c) ==
    IF \E i \in 1..Len(UpperLetters) : UpperLetters[i] = c
    THEN LowerLetters[CHOOSE i \in 1..Len(UpperLetters) : UpperLetters[i] = c]
    ELSE c

ToLowerCase(s) == [i \in 1..Len(s) |-> ToLowerChar(s[i])]

\* s.substring(from, to) with 0-based from (inclusive) and to (exclusive)
Substring(s, from, to) ==
    LET f == IF from < 0 THEN 0 ELSE IF from > Len(s) THEN Len(s) ELSE from
        t == IF to < 0 THEN 0 ELSE IF to > Len(s) THEN Len(s) ELSE to
        lo == IF f <= t THEN f ELSE t
        hi == IF f <= t THEN t ELSE f
    IN  [i \in 1..(hi - lo) |-> s[lo + i]]

\* does q occur in s at 0-based position i
OccursAt(s, q, i) ==
    /\ i >= 0
    /\ i + Len(q) <= Len(s)
    /\ \A k \in 1..Len(q) : s[i + k] = q[k]

\* s.indexOf(q, from): least position >= from where q occurs, else -1
IndexOf(s, q, from) ==
    LET hits == { i \in from..Len(s) : OccursAt(s, q, i) }
    IN  IF hits = {} THEN -1
        ELSE CHOOSE i \in hits : \A j \in hits : i <= j

(***************************************************************************)
(* searchInPage (utils): per-item search, whole-word by regular expression *)
(* and substring by indexOf.                                               *)
(***************************************************************************)
\* the characters the escaping expression /[.*+?^${}()|[\]\\]/g replaces
RegexSpecial ==
    {".", "*", "+", "?", "^", "$", "{", "}", "(", ")", "|", "[", "]", "\\"}

\* query.replace(/[.*+?^${}()|[\]\\]/g, '\\$&')
RECURSIVE EscapeRegExp(_)
EscapeRegExp(q) ==
    IF q = << >> THEN << >>
    ELSE (IF Head(q) \in RegexSpecial THEN <<"\\", Head(q)>> ELSE <<Head(q)>>)
         \o EscapeRegExp(Tail(q))

\* the literal characters a pattern of escaped and ordinary characters matches
RECURSIVE PatternLiterals(_)
PatternLiterals(pat) ==
    IF pat = << >> THEN << >>
    ELSE IF Head(pat) = "\\" /\ Len(pat) >= 2
         THEN <<pat[2]>> \o PatternLiterals(Tail(Tail(pat)))
         ELSE <<Head(pat)>> \o PatternLiterals(Tail(pat))

\* \w of a regular expression
IsWordChar(c) ==
    \/ \E i \in 1..Len(LowerLetters) : c = LowerLetters[i] \/ c = UpperLetters[i]
    \/ c \in {"0", "1", "2", "3", "4", "5", "6", "7", "8", "9", "_"}

\* \b at 0-based position i of s: exactly one side is a word character
WordBoundary(s, i) ==
    LET before == i >= 1 /\ i <= Len(s) /\ IsWordChar(s[i])
        after  == i >= 0 /\ i < Len(s) /\ IsWordChar(s[i + 1])
    IN  before # after

\* regex.exec(text) for a pattern without the closing \b
RegexExec_NoClosingBoundary(text, escapedQuery, ignoreCase, lastIndex) ==
    LET lit  == PatternLiterals(escapedQuery)
        t    == IF ignoreCase THEN ToLowerCase(text) ELSE text
        l    == IF ignoreCase THEN ToLowerCase(lit) ELSE lit
        hits == { i \in lastIndex..Len(text) :
                    /\ WordBoundary(text, i)
                    /\ OccursAt(t, l, i) }
    IN  IF hits = {} THEN -1
        ELSE CHOOSE i \in hits : \A j \in hits : i <= j

\* regex.exec(text) for new RegExp(`\\b${escapedQuery}\\b`, flags) starting at
\* regex.lastIndex: the index of the leftmost match, -1 for null
RegexExec(text, escapedQuery, ignoreCase, lastIndex) ==
    LET lit  == PatternLiterals(escapedQuery)
        t    == IF ignoreCase THEN ToLowerCase(text) ELSE text
        l    == IF ignoreCase THEN ToLowerCase(lit) ELSE lit
        hits == { i \in lastIndex..Len(text) :
                    /\ WordBoundary(text, i)
                    /\ OccursAt(t, l, i)
                    /\ WordBoundary(text, i + Len(l)) }
    IN  IF hits = {} THEN -1
        ELSE CHOOSE i \in hits : \A j \in hits : i <= j

\* the while ((match = regex.exec(text)) !== null) loop of the whole-word branch
RECURSIVE WholeWordScan(_, _, _, _, _)
WholeWordScan(text, escapedQuery, ignoreCase, itemIndex, lastIndex) ==
    LET index == RegexExec(text, escapedQuery, ignoreCase, lastIndex)
        len   == Len(PatternLiterals(escapedQuery))
        after == index + len
        next  == IF index = after THEN after + 1 ELSE after
    IN  IF index = -1 THEN << >>
        ELSE << [itemIndex  |-> itemIndex,
                 matchIndex |-> index,
                 text       |-> Substring(text, index, after),
                 fullText   |-> text] >>
             \o WholeWordScan(text, escapedQuery, ignoreCase, itemIndex, next)

\* the substring loop with a scan that resumes one character after the start
\* of each match
RECURSIVE SubstringScan_Overlapping(_, _, _, _, _, _)
SubstringScan_Overlapping(text, normalizedText, normalizedQuery, queryLength, itemIndex, searchIndex) ==
    LET matchIndex == IndexOf(normalizedText, normalizedQuery, searchIndex)
    IN  IF matchIndex = -1 THEN << >>
        ELSE << [itemIndex  |-> itemIndex,
                 matchIndex |-> matchIndex,
                 text       |-> Substring(text, matchIndex, matchIndex + queryLength),
                 fullText   |-> text] >>
             \o SubstringScan_Overlapping(text, normalizedText, normalizedQuery,
                                          queryLength, itemIndex, matchIndex + 1)

\* the while (true) indexOf loop of the substring branch
RECURSIVE SubstringScan(_, _, _, _, _, _)
SubstringScan(text, normalizedText, normalizedQuery, queryLength, itemIndex, searchIndex) ==
    LET matchIndex == IndexOf(normalizedText, normalizedQuery, searchIndex)
    IN  IF matchIndex = -1 THEN << >>
        ELSE << [itemIndex  |-> itemIndex,
                 matchIndex |-> matchIndex,
                 text       |-> Substring(text, matchIndex, matchIndex + queryLength),
                 fullText   |-> text] >>
             \o SubstringScan(text, normalizedText, normalizedQuery, queryLength,
                              itemIndex, matchIndex + queryLength)

\* the matches of one text item (the body of textItems.forEach)
SearchInItem(text, itemIndex, query, matchCase, wholeWords) ==
    IF text = << >> THEN << >>
    ELSE IF wholeWords
         THEN WholeWordScan(text, EscapeRegExp(query), ~matchCase, itemIndex, 0)
         ELSE SubstringScan(text,
                            IF matchCase THEN text ELSE ToLowerCase(text),
                            IF matchCase THEN query ELSE ToLowerCase(query),
                            Len(query), itemIndex, 0)

RECURSIVE SearchItemsFrom(_, _, _, _, _)
SearchItemsFrom(items, n, query, matchCase, wholeWords) ==
    IF n > Len(items) THEN << >>
    ELSE SearchInItem(items[n], n - 1, query, matchCase, wholeWords)
         \o SearchItemsFrom(items, n + 1, query, matchCase, wholeWords)

\* searchInPage that returns early for the empty query only
searchInPage_NoTrim(items, query, matchCase, wholeWords) ==
    IF query = << >> THEN << >>
    ELSE SearchItemsFrom(items, 1, query, matchCase, wholeWords)

searchInPage(items, query, matchCase, wholeWords) ==
    IF ~TrimNonEmpty(query) THEN << >>
    ELSE SearchItemsFrom(items, 1, query, matchCase, wholeWords)

(***************************************************************************)
(* searchInPagePDFJS (utils): per-item case-insensitive search whose scan  *)
(* resumes one character after the start of each match.                    *)
(***************************************************************************)
\* the while (true) indexOf loop of one text item
RECURSIVE PDFJSScan(_, _, _, _, _)
PDFJSScan(text, normalizedText, normalizedQuery, textDivIndex, searchIndex) ==
    LET matchIndex == IndexOf(normalizedText, normalizedQuery, searchIndex)
        matchEnd   == matchIndex + Len(normalizedQuery)
    IN  IF matchIndex = -1 THEN << >>
        ELSE << [textDivIndex |-> textDivIndex,
                 start        |-> matchIndex,
                 end          |-> matchEnd,
                 text         |-> Substring(text, matchIndex, matchEnd)] >>
             \o PDFJSScan(text, normalizedText, normalizedQuery, textDivIndex,
                          matchIndex + 1)

RECURSIVE PDFJSItemsFrom(_, _, _)
PDFJSItemsFrom(items, n, query) ==
    IF n > Len(items) THEN << >>
    ELSE PDFJSScan(items[n], ToLowerCase(items[n]), ToLowerCase(query), n - 1, 0)
         \o PDFJSItemsFrom(items, n + 1, query)

searchInPagePDFJS(items, query) ==
    IF ~TrimNonEmpty(query) THEN << >>
    ELSE PDFJSItemsFrom(items, 1, query)

(***************************************************************************)
(* searchInPageAdvanced (utils): case-insensitive search in the            *)
(* concatenation of the text items, with a map from each character of the  *)
(* concatenation to its item and its position in the item.                 *)
(***************************************************************************)
\* fullText after the forEach: the concatenation of the items' str
RECURSIVE FullText(_)
FullText(items) ==
    IF items = << >> THEN << >> ELSE Head(items) \o FullText(Tail(items))

\* charToItemMap after the forEach, from item n on
RECURSIVE CharToItemMapFrom(_, _)
CharToItemMapFrom(items, n) ==
    IF n > Len(items) THEN << >>
    ELSE [i \in 1..Len(items[n]) |-> [itemIndex |-> n - 1, charIndex |-> i - 1]]
         \o CharToItemMapFrom(items, n + 1)

\* Array.from(involvedItems) after adding charToItemMap[i].itemIndex for
\* i = from .. to - 1: each item index once, in the order of first insertion
RECURSIVE InvolvedItems(_, _, _)
InvolvedItems(charToItemMap, from, to) ==
    IF from >= to \/ from >= Len(charToItemMap) THEN << >>
    ELSE LET rest == InvolvedItems(charToItemMap, from, to - 1)
             last == IF to - 1 < Len(charToItemMap)
                     THEN <<charToItemMap[to].itemIndex>> ELSE << >>
         IN  IF last # << >> /\ \A k \in 1..Len(rest) : rest[k] # last[1]
             THEN rest \o last
             ELSE rest

\* the loop over the concatenation with the end mapping taken at matchEnd
\* instead of matchEnd - 1
RECURSIVE AdvancedScan_EndExclusive(_, _, _, _, _)
AdvancedScan_EndExclusive(fullText, normalizedText, normalizedQuery, charToItemMap, searchIndex) ==
    LET matchIndex == IndexOf(normalizedText, normalizedQuery, searchIndex)
        matchEnd   == matchIndex + Len(normalizedQuery)
        hasStart   == matchIndex + 1 <= Len(charToItemMap)
        hasEnd     == matchEnd + 1 <= Len(charToItemMap)
    IN  IF matchIndex = -1 THEN << >>
        ELSE (IF hasStart /\ hasEnd
              THEN << [text           |-> Substring(fullText, matchIndex, matchEnd),
                       matchIndex     |-> matchIndex,
                       matchEnd       |-> matchEnd,
                       startItemIndex |-> charToItemMap[matchIndex + 1].itemIndex,
                       endItemIndex   |-> charToItemMap[matchEnd + 1].itemIndex,
                       involvedItems  |-> InvolvedItems(charToItemMap, matchIndex,
                                                        matchEnd),
                       startCharIndex |-> charToItemMap[matchIndex + 1].charIndex,
                       endCharIndex   |-> charToItemMap[matchEnd + 1].charIndex] >>
              ELSE << >>)
             \o AdvancedScan_EndExclusive(fullText, normalizedText, normalizedQuery,
                                          charToItemMap, matchIndex + 1)

\* the while (true) indexOf loop over the concatenation
RECURSIVE AdvancedScan(_, _, _, _, _)
AdvancedScan(fullText, normalizedText, normalizedQuery, charToItemMap, searchIndex) ==
    LET matchIndex == IndexOf(normalizedText, normalizedQuery, searchIndex)
        matchEnd   == matchIndex + Len(normalizedQuery)
        hasStart   == matchIndex + 1 <= Len(charToItemMap)
        hasEnd     == matchEnd >= 1 /\ matchEnd <= Len(charToItemMap)
    IN  IF matchIndex = -1 THEN << >>
        ELSE (IF hasStart /\ hasEnd
              THEN << [text           |-> Substring(fullText, matchIndex, matchEnd),
                       matchIndex     |-> matchIndex,
                       matchEnd       |-> matchEnd,
                       startItemIndex |-> charToItemMap[matchIndex + 1].itemIndex,
                       endItemIndex   |-> charToItemMap[matchEnd].itemIndex,
                       involvedItems  |-> InvolvedItems(charToItemMap, matchIndex,
                                                        matchEnd),
                       startCharIndex |-> charToItemMap[matchIndex + 1].charIndex,
                       endCharIndex   |-> charToItemMap[matchEnd].charIndex] >>
              ELSE << >>)
             \o AdvancedScan(fullText, normalizedText, normalizedQuery,
                             charToItemMap, matchIndex + 1)

searchInPageAdvanced(items, query) ==
    IF ~TrimNonEmpty(query) THEN << >>
    ELSE AdvancedScan(FullText(items), ToLowerCase(FullText(items)),
                      ToLowerCase(query), CharToItemMapFrom(items, 1), 0)

(***************************************************************************)
(* highlightSearchMatch (PageCanvas.tsx): one overlay per involved text    *)
(* item of a cross-item match.  The children of the text layer are text    *)
(* divs [kind, index] and overlays [kind, matchIndex, itemIndex,           *)
(* highlightStart, highlightEnd, styledFrom]; styledFrom is the index of   *)
(* the text div whose computed style gave the overlay its position and     *)
(* width.                                                                  *)
(***************************************************************************)
\* the text layer as the build leaves it: one div per text item
TextDivs(items) == [i \in 1..Len(items) |-> [kind |-> "text", index |-> i - 1]]

\* the text div a child takes its geometry from
StyleSource(child) ==
    IF child.kind = "text" THEN child.index ELSE child.styledFrom

\* parent.insertBefore(e, parent.children[pos - 1])
InsertBefore(children, pos, e) ==
    SubSeq(children, 1, pos - 1) \o <<e>> \o SubSeq(children, pos, Len(children))

\* the body of match.involvedItems.forEach for one itemIndex; children is the
\* live textLayerRef.current.children
HighlightItem(children, items, match, matchIndex, itemIndex) ==
    IF itemIndex + 1 > Len(children) THEN children
    ELSE IF itemIndex + 1 > Len(items) \/ items[itemIndex + 1] = << >> THEN children
    ELSE LET textDiv        == children[itemIndex + 1]
             highlightStart == IF itemIndex = match.startItemIndex
                               THEN match.startCharIndex ELSE 0
             highlightEnd   == IF itemIndex = match.endItemIndex
                               THEN match.endCharIndex + 1
                               ELSE Len(items[itemIndex + 1])
         IN  InsertBefore(children, itemIndex + 1,
                          [kind           |-> "highlight",
                           matchIndex     |-> matchIndex,
                           itemIndex      |-> itemIndex,
                           highlightStart |-> highlightStart,
                           highlightEnd   |-> highlightEnd,
                           styledFrom     |-> StyleSource(textDiv)])

\* match.involvedItems.forEach from its n-th element on
RECURSIVE HighlightItemsFrom(_, _, _, _, _)
HighlightItemsFrom(children, items, match, matchIndex, n) ==
    IF n > Len(match.involvedItems) THEN children
    ELSE HighlightItemsFrom(
             HighlightItem(children, items, match, matchIndex, match.involvedItems[n]),
             items, match, matchIndex, n + 1)

\* the children of the text layer after highlightSearchMatch(match, matchIndex)
highlightSearchMatch(children, items, match, matchIndex) ==
    HighlightItemsFrom(children, items, match, matchIndex, 1)

(***************************************************************************)
(* The global search navigator of PDFViewer.tsx.  The aggregate            *)
(* allSearchMatches is a sequence of records [pageNumber, matches].        *)
(***************************************************************************)
\* findPageForSearchResult's "return null"
NullPage == 0

RECURSIVE SumMatches(_)
\* allSearchMatches.current.reduce((total, page) => total + page.matches.length, 0)
SumMatches(agg) ==
    IF agg = << >> THEN 0 ELSE Len(Head(agg).matches) + SumMatches(Tail(agg))

\* allSearchMatches.current.findIndex(p => p.pageNumber === pageNumber), 0-based
FindIndexOfPage(agg, pageNumber) ==
    LET hits == { i \in 1..Len(agg) : agg[i].pageNumber = pageNumber }
    IN  IF hits = {} THEN -1
        ELSE (CHOOSE i \in hits : \A j \in hits : i <= j) - 1

\* insert an entry into a list sorted by pageNumber, after the entries that
\* do not compare greater (Array.prototype.sort is stable)
RECURSIVE InsertByPageNumber(_, _)
InsertByPageNumber(sorted, e) ==
    IF sorted = << >> THEN <<e>>
    ELSE IF Head(sorted).pageNumber - e.pageNumber > 0
         THEN <<e>> \o sorted
         ELSE <<Head(sorted)>> \o InsertByPageNumber(Tail(sorted), e)

\* allSearchMatches.current.sort((a, b) => a.pageNumber - b.pageNumber)
RECURSIVE SortByPageNumber(_)
SortByPageNumber(agg) ==
    IF agg = << >> THEN << >>
    ELSE InsertByPageNumber(SortByPageNumber(SubSeq(agg, 1, Len(agg) - 1)),
                            agg[Len(agg)])

\* updateSearchMatches without the sort after the push
updateSearchMatches_NoSort(agg, pageNumber, matches) ==
    LET existingIndex == FindIndexOfPage(agg, pageNumber)
        entry == [pageNumber |-> pageNumber, matches |-> matches]
    IN  IF existingIndex >= 0
        THEN [agg EXCEPT ![existingIndex + 1] = entry]
        ELSE Append(agg, entry)

\* updateSearchMatches that puts a new entry first and does not sort
updateSearchMatches_PushFront(agg, pageNumber, matches) ==
    LET existingIndex == FindIndexOfPage(agg, pageNumber)
        entry == [pageNumber |-> pageNumber, matches |-> matches]
    IN  IF existingIndex >= 0
        THEN [agg EXCEPT ![existingIndex + 1] = entry]
        ELSE <<entry>> \o agg

\* updateSearchMatches that keeps the entry a page already has
updateSearchMatches_KeepFirst(agg, pageNumber, matches) ==
    LET existingIndex == FindIndexOfPage(agg, pageNumber)
        entry == [pageNumber |-> pageNumber, matches |-> matches]
    IN  IF existingIndex >= 0
        THEN agg
        ELSE SortByPageNumber(Append(agg, entry))

\* the new value of allSearchMatches.current after
\* updateSearchMatches(pageNumber, matches)
updateSearchMatches(agg, pageNumber, matches) ==
    LET existingIndex == FindIndexOfPage(agg, pageNumber)
        entry == [pageNumber |-> pageNumber, matches |-> matches]
    IN  IF existingIndex >= 0
        THEN [agg EXCEPT ![existingIndex + 1] = entry]
        ELSE SortByPageNumber(Append(agg, entry))

\* the loop shared by findPageForSearchResult and scrollToSearchResult: the
\* entry that owns resultIndex and the in-page index resultIndex - currentIndex
RECURSIVE ResolveFrom(_, _, _)
ResolveFrom(agg, resultIndex, currentIndex) ==
    IF agg = << >>
    THEN [pageNumber |-> NullPage, matchIndexInPage |-> -1]
    ELSE LET pageMatchCount == Len(Head(agg).matches)
         IN  IF resultIndex >= currentIndex
                /\ resultIndex < currentIndex + pageMatchCount
             THEN [pageNumber |-> Head(agg).pageNumber,
                   matchIndexInPage |-> resultIndex - currentIndex]
             ELSE ResolveFrom(Tail(agg), resultIndex, currentIndex + pageMatchCount)

\* findPageForSearchResult with the upper comparison off by one
RECURSIVE findPage_OffByOneFrom(_, _, _)
findPage_OffByOneFrom(agg, resultIndex, currentIndex) ==
    IF agg = << >> THEN NullPage
    ELSE LET pageMatchCount == Len(Head(agg).matches)
         IN  IF resultIndex >= currentIndex
                /\ resultIndex <= currentIndex + pageMatchCount
             THEN Head(agg).pageNumber
             ELSE findPage_OffByOneFrom(Tail(agg), resultIndex,
                                        currentIndex + pageMatchCount)

findPageForSearchResult_OffByOne(agg, resultIndex) ==
    findPage_OffByOneFrom(agg, resultIndex, 0)

findPageForSearchResult(agg, resultIndex) ==
    ResolveFrom(agg, resultIndex, 0).pageNumber

\* the (pageNumber, matchIndexInPage) that scrollToSearchResult scrolls to
scrollToSearchResult(agg, resultIndex) ==
    ResolveFrom(agg, resultIndex, 0)

RECURSIVE GlobalIndexFrom(_, _, _, _)
GlobalIndexFrom(agg, pageNumber, matchIndex, globalIndex) ==
    IF agg = << >> THEN -1
    ELSE IF Head(agg).pageNumber = pageNumber
         THEN globalIndex + matchIndex
         ELSE GlobalIndexFrom(Tail(agg), pageNumber, matchIndex,
                              globalIndex + Len(Head(agg).matches))

\* getCurrentMatchIndex that adds a page's count before comparing its number
RECURSIVE GlobalIndex_CountFirstFrom(_, _, _, _)
GlobalIndex_CountFirstFrom(agg, pageNumber, matchIndex, globalIndex) ==
    IF agg = << >> THEN -1
    ELSE IF Head(agg).pageNumber = pageNumber
         THEN globalIndex + Len(Head(agg).matches) + matchIndex
         ELSE GlobalIndex_CountFirstFrom(Tail(agg), pageNumber, matchIndex,
                                         globalIndex + Len(Head(agg).matches))

getCurrentMatchIndex_CountFirst(agg, pageNumber, matchIndex) ==
    GlobalIndex_CountFirstFrom(agg, pageNumber, matchIndex, 0)

getCurrentMatchIndex(agg, pageNumber, matchIndex) ==
    GlobalIndexFrom(agg, pageNumber, matchIndex, 0)

(***************************************************************************)
(* Highlighting (utils, PageCanvas.tsx).  A text div of the text layer is  *)
(* modelled by the sequence of highlight spans it holds, each              *)
(* [matchIndex, text, selected]; a div without highlights is << >>.        *)
(***************************************************************************)
\* arr.filter(match => match.itemIndex === i)
RECURSIVE FilterByItem(_, _)
FilterByItem(matches, i) ==
    IF matches = << >> THEN << >>
    ELSE (IF Head(matches).itemIndex = i THEN <<Head(matches)>> ELSE << >>)
         \o FilterByItem(Tail(matches), i)

\* matches.indexOf(match), 0-based
IndexOfMatch(matches, match) ==
    LET hits == { j \in 1..Len(matches) : matches[j] = match }
    IN  IF hits = {} THEN -1
        ELSE (CHOOSE j \in hits : \A k \in hits : j <= k) - 1

\* element.innerHTML after clearHighlightsInElement(element): no span is left
clearHighlightsInElement == << >>

\* the spans of element after highlightTextInElement(element, matches,
\* selectedMatchIndex), in the order of matches
highlightTextInElement(originalText, matches, selectedMatchIndex) ==
    IF Len(matches) = 0 THEN clearHighlightsInElement
    ELSE [k \in 1..Len(matches) |->
            LET matchStart == matches[k].matchIndex
                matchEnd   == matches[k].matchIndex + Len(matches[k].text)
            IN  [matchIndex |-> matchStart,
                 text       |-> Substring(originalText, matchStart, matchEnd),
                 selected   |-> (IndexOfMatch(matches, matches[k]) = selectedMatchIndex)]]

(***************************************************************************)
(* highlightTextInElement and clearHighlightsInElement (utils) on the      *)
(* markup of one text div.  The string assigned to element.innerHTML is a  *)
(* sequence of tokens: [t |-> "char", c] for a character copied from the   *)
(* original text as it is, [t |-> "ref", c] for the character reference    *)
(* escapeHtml writes for c, [t |-> "open", selected] for the start tag of  *)
(* a highlight span and [t |-> "close"] for its end tag.  The texts        *)
(* handled hold no quote characters.                                       *)
(***************************************************************************)
RawChars(text) == [i \in 1..Len(text) |-> [t |-> "char", c |-> text[i]]]

\* escapeHtml(text): the serialization of a text node
escapeHtml(text) ==
    [i \in 1..Len(text) |->
        IF text[i] \in {"&", "<", ">"}
        THEN [t |-> "ref", c |-> text[i]]
        ELSE [t |-> "char", c |-> text[i]]]

\* [...matches].sort((a, b) => b.matchIndex - a.matchIndex): the stable
\* insertion of e into a sequence sorted by descending matchIndex
RECURSIVE InsertDescending(_, _)
InsertDescending(sorted, e) ==
    IF sorted = << >> THEN <<e>>
    ELSE IF Head(sorted).matchIndex >= e.matchIndex
         THEN <<Head(sorted)>> \o InsertDescending(Tail(sorted), e)
         ELSE <<e>> \o sorted

RECURSIVE SortDescending(_)
SortDescending(matches) ==
    IF matches = << >> THEN << >>
    ELSE InsertDescending(SortDescending(SubSeq(matches, 1, Len(matches) - 1)),
                          matches[Len(matches)])

\* html after sortedMatches.forEach from its n-th element on
RECURSIVE ReplaceMatchesFrom(_, _, _, _, _, _)
ReplaceMatchesFrom(html, originalText, matches, sortedMatches, selectedMatchIndex, n) ==
    IF n > Len(sortedMatches) THEN html
    ELSE LET match      == sortedMatches[n]
             matchStart == match.matchIndex
             matchEnd   == match.matchIndex + Len(match.text)
             matchText  == Substring(originalText, matchStart, matchEnd)
             isSelected == IndexOfMatch(matches, match) = selectedMatchIndex
             highlightSpan == <<[t |-> "open", selected |-> isSelected]>>
                              \o escapeHtml(matchText) \o <<[t |-> "close"]>>
         IN  ReplaceMatchesFrom(
                 Substring(html, 0, matchStart) \o highlightSpan
                     \o Substring(html, matchEnd, Len(html)),
                 originalText, matches, sortedMatches, selectedMatchIndex, n + 1)

\* the string highlightTextInElement assigns to element.innerHTML, for an
\* element whose textContent is originalText
HighlightedInnerHTML(originalText, matches, selectedMatchIndex) ==
    IF Len(matches) = 0 THEN RawChars(originalText)
    ELSE ReplaceMatchesFrom(RawChars(originalText), originalText, matches,
                            SortDescending(matches), selectedMatchIndex, 1)

IsLetter(c) ==
    \E i \in 1..Len(LowerLetters) : c = LowerLetters[i] \/ c = UpperLetters[i]

IsRawChar(html, i, cs) == i <= Len(html) /\ html[i].t = "char" /\ html[i].c \in cs

IsRawLetter(html, i) == i <= Len(html) /\ html[i].t = "char" /\ IsLetter(html[i].c)

\* the token at i holds the ">" that ends a tag or a bogus comment
EndsTag(html, i) ==
    \/ html[i].t = "char" /\ html[i].c = ">"
    \/ html[i].t \in {"open", "close"}

\* the position after the first ">" at or after i, 0 when the input ends
\* inside the tag
AfterTagEnd(html, i) ==
    LET ends == { j \in i..Len(html) : EndsTag(html, j) }
    IN  IF ends = {} THEN 0
        ELSE (CHOOSE j \in ends : \A k \in ends : j <= k) + 1

\* the characters that spell the name at i of a character reference
SpellsAt(html, i, name) ==
    \A k \in 1..Len(name) : IsRawChar(html, i + k - 1, {name[k]})

\* the named character references that raw text can spell: <<name, character>>
NamedReferences ==
    { << <<"l", "t">>, "<" >>, << <<"g", "t">>, ">" >>, << <<"a", "m", "p">>, "&" >> }

\* element.textContent after the HTML parser has read html from token i on,
\* in the data state: tags and comments give no text, character references
\* give their character
RECURSIVE TextContentFrom(_, _)
TextContentFrom(html, i) ==
    IF i > Len(html) THEN << >>
    ELSE IF html[i].t \in {"open", "close"} THEN TextContentFrom(html, i + 1)
    ELSE IF html[i].t = "ref" THEN <<html[i].c>> \o TextContentFrom(html, i + 1)
    ELSE IF html[i].c = "<"
              /\ (\/ IsRawLetter(html, i + 1)
                  \/ IsRawChar(html, i + 1, {"!", "?"})
                  \/ IsRawChar(html, i + 1, {"/"}) /\ i + 2 <= Len(html))
         THEN IF AfterTagEnd(html, i + 1) = 0 THEN << >>
              ELSE TextContentFrom(html, AfterTagEnd(html, i + 1))
    ELSE IF html[i].c = "&" /\ \E r \in NamedReferences : SpellsAt(html, i + 1, r[1])
         THEN LET r == CHOOSE r \in NamedReferences : SpellsAt(html, i + 1, r[1])
                  after == i + 1 + Len(r[1])
              IN  <<r[2]>> \o TextContentFrom(html, IF IsRawChar(html, after, {";"})
                                                     THEN after + 1 ELSE after)
    ELSE <<html[i].c>> \o TextContentFrom(html, i + 1)

\* element.textContent after element.innerHTML = html
TextContentOf(html) == TextContentFrom(html, 1)

\* element.innerHTML after clearHighlightsInElement(element), for an element
\* with the markup html: its text content in one text node
ClearedInnerHTML(html) == escapeHtml(TextContentOf(html))

(***************************************************************************)
(* The text layer build of renderPage (PageCanvas.tsx).  A text item is a  *)
(* record [str, hasWidth, width, hasHeight, height, transform]: hasWidth   *)
(* and hasHeight tell whether the item declares the property.  A transform *)
(* is a sequence of six numbers.  The numbers are whole: the items and     *)
(* viewports handled are such that every square root taken is a whole      *)
(* number and every product with 0.6 is one.                               *)
(***************************************************************************)
\* the composition taken in the other order
Transform_Swapped(m1, m2) ==
    << m2[1] * m1[1] + m2[3] * m1[2],
       m2[2] * m1[1] + m2[4] * m1[2],
       m2[1] * m1[3] + m2[3] * m1[4],
       m2[2] * m1[3] + m2[4] * m1[4],
       m2[1] * m1[5] + m2[3] * m1[6] + m2[5],
       m2[2] * m1[5] + m2[4] * m1[6] + m2[6] >>

\* pdfjsLib.Util.transform(m1, m2)
Transform(m1, m2) ==
    << m1[1] * m2[1] + m1[3] * m2[2],
       m1[2] * m2[1] + m1[4] * m2[2],
       m1[1] * m2[3] + m1[3] * m2[4],
       m1[2] * m2[3] + m1[4] * m2[4],
       m1[1] * m2[5] + m1[3] * m2[6] + m1[5],
       m1[2] * m2[5] + m1[4] * m2[6] + m1[6] >>

\* Math.sqrt(n) for the square n of a whole number
Sqrt(n) == CHOOSE r \in 0..n : r * r = n

\* x * 0.6
TimesPointSix(x) == (x * 6) \div 10

\* the truth value of a property that may be undefined
Truthy(has, value) == has /\ value # 0

\* the text div that the forEach body builds for textItem at position index
TextDivOf(textItem, index, viewportTransform) ==
    LET tx       == Transform(viewportTransform, textItem.transform)
        scaleX   == Sqrt(tx[1] * tx[1] + tx[2] * tx[2])
        scaleY   == Sqrt(tx[3] * tx[3] + tx[4] * tx[4])
        fontSize == Sqrt(tx[3] * tx[3] + tx[4] * tx[4])
        width    == IF Truthy(textItem.hasWidth, textItem.width)
                    THEN textItem.width * scaleX
                    ELSE IF textItem.str # << >>
                         THEN TimesPointSix(Len(textItem.str) * fontSize)
                         ELSE 0
        height   == IF Truthy(textItem.hasHeight, textItem.height)
                    THEN textItem.height * scaleY
                    ELSE fontSize
    IN  [kind        |-> "text",
         index       |-> index,
         textContent |-> textItem.str,
         left        |-> tx[5],
         top         |-> tx[6] - fontSize,
         width       |-> width,
         height      |-> height,
         fontSize    |-> fontSize]

\* the text layer build that appends to the children it finds
BuildTextLayerDivs_NoClear(children, items, viewportTransform) ==
    children \o [i \in 1..Len(items) |-> TextDivOf(items[i], i - 1, viewportTransform)]

\* the children of the text layer after the build: innerHTML = '' empties
\* the children it finds, then one div is appended per text item
BuildTextLayerDivs(children, items, viewportTransform) ==
    [i \in 1..Len(items) |-> TextDivOf(items[i], i - 1, viewportTransform)]

(***************************************************************************)
(* State.                                                                  *)
(***************************************************************************)
VARIABLES
    searchQuery,          \* state.searchQuery, the committed query
    debounceTimer,        \* the timeout of debounce(): [armed, query]
    searchOpen,           \* searchOpen
    searchMatchCase,      \* searchMatchCase
    searchWholeWords,     \* searchWholeWords
    currentSearchResult,  \* state.currentSearchResult, the global cursor
    currentPage,          \* state.currentPage
    allSearchMatches,     \* allSearchMatches.current
    searchResultsCount,   \* searchResultsCount.current
    toolbarSearchResultsCount,   \* the searchResultsCount prop last rendered to the Toolbar
    textContent,          \* per page: has setTextContent delivered text content
    textLayer,            \* per page: the children of the text layer
    effectPending,        \* per page: the highlighting effect is scheduled
    lastReport,           \* history: per page, the matches last reported since
                          \* the aggregate was last cleared
    reportOrder,          \* history: the pages in the order in which they
                          \* entered the aggregate since it was last cleared
    nav,                  \* history: the navigation request handled last
    renderCalls,          \* per page: renderPage() calls its effects have scheduled
    renders,              \* per page: the renderPage() invocations made, each
                          \* [pc, task]; an invocation is named by its position
    currentRenderRef,     \* per page: the invocation whose task currentRenderRef
                          \* holds, NoRender for null
    containerCanvases,    \* per page: the canvases in the container, by invocation
    isLoading,            \* per page: isLoading
    error,                \* per page: error is not null
    textLayerBuiltBy,     \* history, per page: the invocation that built the
                          \* text layer last
    burst,                \* history: the handleSearchChange calls made since the
                          \* debounce timer was last idle, [calls, last]
    call                  \* the call of a function made last and its arguments:
                          \* of a search function of utils, [fn, items, query,
                          \* matchCase, wholeWords, result]

searchVars ==
    <<searchQuery, debounceTimer, searchOpen, searchMatchCase, searchWholeWords,
      currentSearchResult, currentPage, allSearchMatches, searchResultsCount,
      toolbarSearchResultsCount,
      textContent, textLayer, effectPending, lastReport, reportOrder, nav, burst>>

renderVars ==
    <<renderCalls, renders, currentRenderRef, containerCanvases, isLoading, error,
      textLayerBuiltBy>>

vars == <<searchVars, renderVars, call>>

\* currentRenderRef.current === null
NoRender == 0

NoTimer == [armed |-> FALSE, query |-> << >>]
NoReport == [reported |-> FALSE, matches |-> << >>]
NoNav == [op |-> "none", from |-> 0, total |-> 0]
NoBurst == [calls |-> 0, last |-> << >>]
NoCall == [fn |-> "none", items |-> << >>, query |-> << >>,
           matchCase |-> FALSE, wholeWords |-> FALSE, result |-> << >>]

NoEffectPending == \A p \in Pages : ~effectPending[p]

\* the dependencies shared by every page's highlighting effect changed: every
\* mounted PageCanvas re-runs the effect after the commit
AllPages(b) == [p \in Pages |-> b]

(***************************************************************************)
(* Initial state: the document is loaded and its PageCanvas components are *)
(* mounted; no page has text content yet and the effects of the mount are  *)
(* scheduled: the highlighting effect, and two renderPage() calls (the     *)
(* renderPage effect runs on mount and again after the renderKey effect's  *)
(* setRenderKey).                                                          *)
(***************************************************************************)
InitViewer ==
    /\ searchQuery = << >>
    /\ debounceTimer = NoTimer
    /\ searchOpen = FALSE
    /\ searchMatchCase = FALSE
    /\ searchWholeWords = FALSE
    /\ currentSearchResult = 0
    /\ currentPage = 1
    /\ allSearchMatches = << >>
    /\ searchResultsCount = 0
    /\ toolbarSearchResultsCount = 0
    /\ textContent = AllPages(FALSE)
    /\ textLayer = [p \in Pages |-> << >>]
    /\ effectPending = AllPages(TRUE)
    /\ lastReport = [p \in Pages |-> NoReport]
    /\ reportOrder = << >>
    /\ nav = NoNav
    /\ renderCalls = [p \in Pages |-> 2]
    /\ renders = [p \in Pages |-> << >>]
    /\ currentRenderRef = [p \in Pages |-> NoRender]
    /\ containerCanvases = [p \in Pages |-> << >>]
    /\ isLoading = AllPages(TRUE)
    /\ error = AllPages(FALSE)
    /\ textLayerBuiltBy = [p \in Pages |-> 0]
    /\ burst = NoBurst

Init ==
    /\ InitViewer
    /\ call = NoCall

(***************************************************************************)
(* The search highlighting effect of one PageCanvas.  React runs the       *)
(* effects of one commit in the order of the components, so pages with a   *)
(* scheduled effect run it in ascending page order; handlers of user       *)
(* events and timers run when no effect is scheduled.                      *)
(***************************************************************************)
\* the text layer children after the effect's highlight loop
HighlightDivs(p, divs, matches, agg, cursor) ==
    [i \in 1..Len(divs) |->
        LET matchesForThisDiv == FilterByItem(matches, i - 1)
            found == { k \in 1..Len(matchesForThisDiv) :
                         getCurrentMatchIndex(agg, p,
                             IndexOfMatch(matches, matchesForThisDiv[k])) = cursor }
            selectedMatchIndex ==
                IF found = {} THEN -1
                ELSE (CHOOSE k \in found : \A j \in found : k <= j) - 1
        IN  IF Len(matchesForThisDiv) > 0
            THEN highlightTextInElement(PageItems(p)[i], matchesForThisDiv,
                                        selectedMatchIndex)
            ELSE clearHighlightsInElement]

\* Report without the update of the total count
Report_NoCount(p, matches) ==
    /\ allSearchMatches' = updateSearchMatches(allSearchMatches, p, matches)
    /\ UNCHANGED searchResultsCount
    /\ lastReport' = [lastReport EXCEPT ![p] = [reported |-> TRUE, matches |-> matches]]
    /\ reportOrder' = IF lastReport[p].reported THEN reportOrder
                      ELSE Append(reportOrder, p)

\* report matches of page p: updateSearchMatches and its history
Report(p, matches) ==
    /\ allSearchMatches' = updateSearchMatches(allSearchMatches, p, matches)
    /\ searchResultsCount' = SumMatches(allSearchMatches')
    /\ lastReport' = [lastReport EXCEPT ![p] = [reported |-> TRUE, matches |-> matches]]
    /\ reportOrder' = IF lastReport[p].reported THEN reportOrder
                      ELSE Append(reportOrder, p)

RunEffect(p) ==
    /\ effectPending[p]
    /\ \A q \in Pages : q < p => ~effectPending[q]
    /\ effectPending' = [effectPending EXCEPT ![p] = FALSE]
    /\ IF ~textContent[p] \/ error[p]
       THEN /\ Report(p, << >>)
            /\ UNCHANGED textLayer
       ELSE IF ~TrimNonEmpty(searchQuery)
       THEN /\ textLayer' = [textLayer EXCEPT ![p] =
                                [i \in 1..Len(textLayer[p]) |-> clearHighlightsInElement]]
            /\ Report(p, << >>)
       ELSE LET matches == searchInPage(PageItems(p), searchQuery,
                                        searchMatchCase, searchWholeWords)
            IN  /\ Report(p, matches)
                /\ textLayer' = [textLayer EXCEPT ![p] =
                                    HighlightDivs(p, textLayer[p], matches,
                                                  allSearchMatches', currentSearchResult)]
    /\ nav' = NoNav
    /\ UNCHANGED <<searchQuery, debounceTimer, searchOpen, searchMatchCase,
                   searchWholeWords, currentSearchResult, currentPage, textContent,
                   toolbarSearchResultsCount>>
    /\ UNCHANGED <<burst, renderVars, call>>

(***************************************************************************)
(* The step of renderPage that the search sees: the current render's       *)
(* getTextContent() resolved, setTextContent() stored the text content and *)
(* the text layer was emptied and rebuilt with one div per text item.  A   *)
(* new text content object re-runs the page's highlighting effect.         *)
(***************************************************************************)
BuildTextLayer(p) == [i \in 1..Len(PageItems(p)) |-> clearHighlightsInElement]

\* textLayerRef.current is null while the error view replaces the container
SetTextContent(p) ==
    /\ textContent' = [textContent EXCEPT ![p] = TRUE]
    /\ textLayer' = IF error[p] THEN textLayer
                    ELSE [textLayer EXCEPT ![p] = BuildTextLayer(p)]
    /\ effectPending' = [effectPending EXCEPT ![p] = TRUE]

TextContentArrives(p) ==
    /\ SetTextContent(p)
    /\ nav' = NoNav
    /\ UNCHANGED <<searchQuery, debounceTimer, searchOpen, searchMatchCase,
                   searchWholeWords, currentSearchResult, currentPage,
                   allSearchMatches, searchResultsCount,
                   toolbarSearchResultsCount, lastReport, reportOrder>>
    /\ UNCHANGED <<burst, renderVars, call>>

(***************************************************************************)
(* Handlers of PDFViewer.tsx.                                              *)
(***************************************************************************)
\* PDFViewer renders with the state a handler set: the Toolbar receives the
\* sum of the match counts that allSearchMatches.current holds at that moment
RenderViewer(agg) ==
    toolbarSearchResultsCount' = SumMatches(agg)

\* state.currentPage after handlePageChange(page)
handlePageChange(page) ==
    IF page >= 1 /\ page <= NumPages THEN page ELSE currentPage

HandlePageChange(page) ==
    /\ NoEffectPending
    /\ currentPage' = handlePageChange(page)
    /\ IF page >= 1 /\ page <= NumPages
       THEN RenderViewer(allSearchMatches)
       ELSE UNCHANGED toolbarSearchResultsCount
    /\ nav' = NoNav
    /\ UNCHANGED <<searchQuery, debounceTimer, searchOpen, searchMatchCase,
                   searchWholeWords, currentSearchResult, allSearchMatches,
                   searchResultsCount, textContent, textLayer, effectPending,
                   lastReport, reportOrder>>
    /\ UNCHANGED <<burst, renderVars, call>>

handleSearchToggle ==
    /\ NoEffectPending
    /\ searchOpen' = ~searchOpen
    /\ RenderViewer(IF searchOpen THEN << >> ELSE allSearchMatches)
    /\ IF searchOpen
       THEN \* closing: clear search
            /\ searchQuery' = << >>
            /\ allSearchMatches' = << >>
            /\ searchResultsCount' = 0
            /\ lastReport' = [p \in Pages |-> NoReport]
            /\ reportOrder' = << >>
            /\ effectPending' = AllPages(searchQuery # << >>)
       ELSE UNCHANGED <<searchQuery, allSearchMatches, searchResultsCount,
                        lastReport, reportOrder, effectPending>>
    /\ nav' = NoNav
    /\ UNCHANGED <<debounceTimer, searchMatchCase, searchWholeWords,
                   currentSearchResult, currentPage, textContent, textLayer>>
    /\ UNCHANGED <<burst, renderVars, call>>

\* the debounced handleSearchChange(query) without clearTimeout: a pending
\* timer is kept and fires with the arguments of its own call
handleSearchChange_NoClearTimeout(query) ==
    /\ NoEffectPending
    /\ searchOpen
    /\ burst.calls < MaxBurst
    /\ debounceTimer' = IF debounceTimer.armed THEN debounceTimer
                        ELSE [armed |-> TRUE, query |-> query]
    /\ burst' = [calls |-> burst.calls + 1, last |-> query]
    /\ nav' = NoNav
    /\ UNCHANGED <<searchQuery, searchOpen, searchMatchCase, searchWholeWords,
                   currentSearchResult, currentPage, allSearchMatches,
                   searchResultsCount,
                   toolbarSearchResultsCount, textContent, textLayer, effectPending,
                   lastReport, reportOrder>>
    /\ UNCHANGED <<renderVars, call>>

\* the debounced handleSearchChange(query): clearTimeout, then setTimeout
handleSearchChange(query) ==
    /\ NoEffectPending
    /\ searchOpen
    /\ burst.calls < MaxBurst
    /\ debounceTimer' = [armed |-> TRUE, query |-> query]
    /\ burst' = [calls |-> burst.calls + 1, last |-> query]
    /\ nav' = NoNav
    /\ UNCHANGED <<searchQuery, searchOpen, searchMatchCase, searchWholeWords,
                   currentSearchResult, currentPage, allSearchMatches,
                   searchResultsCount,
                   toolbarSearchResultsCount, textContent, textLayer, effectPending,
                   lastReport, reportOrder>>
    /\ UNCHANGED <<renderVars, call>>

\* the debounced function with a cursor reset for every query
DebounceFire_ResetsAlways ==
    /\ NoEffectPending
    /\ debounceTimer.armed
    /\ debounceTimer' = NoTimer
    /\ burst' = NoBurst
    /\ RenderViewer(IF ~TrimNonEmpty(debounceTimer.query) THEN << >>
                    ELSE allSearchMatches)
    /\ searchQuery' = debounceTimer.query
    /\ IF ~TrimNonEmpty(debounceTimer.query)
       THEN /\ allSearchMatches' = << >>
            /\ searchResultsCount' = 0
            /\ lastReport' = [p \in Pages |-> NoReport]
            /\ reportOrder' = << >>
            /\ currentSearchResult' = 0
       ELSE /\ currentSearchResult' = 0
            /\ UNCHANGED <<allSearchMatches, searchResultsCount, lastReport,
                           reportOrder>>
    /\ effectPending' = AllPages(searchQuery' # searchQuery
                                 \/ currentSearchResult' # currentSearchResult)
    /\ nav' = NoNav
    /\ UNCHANGED <<searchOpen, searchMatchCase, searchWholeWords, currentPage,
                   textContent, textLayer>>
    /\ UNCHANGED <<renderVars, call>>

\* the timeout of debounce() fires: func.apply(null, args)
DebounceFire ==
    /\ NoEffectPending
    /\ debounceTimer.armed
    /\ debounceTimer' = NoTimer
    /\ burst' = NoBurst
    /\ RenderViewer(IF ~TrimNonEmpty(debounceTimer.query) THEN << >>
                    ELSE allSearchMatches)
    /\ searchQuery' = debounceTimer.query
    /\ IF ~TrimNonEmpty(debounceTimer.query)
       THEN /\ allSearchMatches' = << >>
            /\ searchResultsCount' = 0
            /\ lastReport' = [p \in Pages |-> NoReport]
            /\ reportOrder' = << >>
            /\ currentSearchResult' = 0
       ELSE UNCHANGED <<allSearchMatches, searchResultsCount, lastReport,
                        reportOrder, currentSearchResult>>
    /\ effectPending' = AllPages(searchQuery' # searchQuery
                                 \/ currentSearchResult' # currentSearchResult)
    /\ nav' = NoNav
    /\ UNCHANGED <<searchOpen, searchMatchCase, searchWholeWords, currentPage,
                   textContent, textLayer>>
    /\ UNCHANGED <<renderVars, call>>

\* the flag handlers with a re-match that is held back while a debounced
\* query change is pending
FlagChanged_HeldByDebounce ==
    /\ currentSearchResult' =
          IF TrimNonEmpty(searchQuery) THEN 0 ELSE currentSearchResult
    /\ effectPending' = AllPages(~debounceTimer.armed)
    /\ RenderViewer(allSearchMatches)
    /\ nav' = NoNav
    /\ UNCHANGED <<searchQuery, debounceTimer, searchOpen, currentPage,
                   allSearchMatches, searchResultsCount, textContent, textLayer,
                   lastReport, reportOrder>>
    /\ UNCHANGED <<burst, renderVars, call>>

\* the cursor reset and searchTimestamp shared by the two flag handlers
FlagChanged ==
    /\ currentSearchResult' =
          IF TrimNonEmpty(searchQuery) THEN 0 ELSE currentSearchResult
    /\ effectPending' = AllPages(TRUE)
    /\ RenderViewer(allSearchMatches)
    /\ nav' = NoNav
    /\ UNCHANGED <<searchQuery, debounceTimer, searchOpen, currentPage,
                   allSearchMatches, searchResultsCount, textContent, textLayer,
                   lastReport, reportOrder>>
    /\ UNCHANGED <<burst, renderVars, call>>

handleSearchMatchCaseChange(matchCase) ==
    /\ NoEffectPending
    /\ searchOpen
    /\ matchCase # searchMatchCase
    /\ searchMatchCase' = matchCase
    /\ FlagChanged
    /\ UNCHANGED searchWholeWords

handleSearchWholeWordsChange(wholeWords) ==
    /\ NoEffectPending
    /\ searchOpen
    /\ wholeWords # searchWholeWords
    /\ searchWholeWords' = wholeWords
    /\ FlagChanged
    /\ UNCHANGED searchMatchCase

\* (state.currentSearchResult + 1) % totalMatches
NextResult(current, totalMatches) == (current + 1) % totalMatches

\* state.currentSearchResult === 0 ? totalMatches - 1 : state.currentSearchResult - 1
PrevResult(current, totalMatches) ==
    IF current = 0 THEN totalMatches - 1 ELSE current - 1

\* the part shared by handleSearchNext and handleSearchPrev once the new
\* cursor value is computed
NavigateTo(result) ==
    LET resultPage == findPageForSearchResult(allSearchMatches, result)
    IN  /\ currentSearchResult' = result
        /\ currentPage' = IF resultPage # NullPage
                          THEN handlePageChange(resultPage)
                          ELSE currentPage
        /\ effectPending' = AllPages(result # currentSearchResult)
        /\ RenderViewer(allSearchMatches)

\* handleSearchNext without the early return: an empty total wraps to 0
handleSearchNext_NoEarlyReturn ==
    LET totalMatches == SumMatches(allSearchMatches)
    IN  /\ NoEffectPending
        /\ searchOpen
        /\ nav' = [op |-> "next", from |-> currentSearchResult, total |-> totalMatches]
        /\ NavigateTo(IF totalMatches = 0 THEN 0
                      ELSE NextResult(currentSearchResult, totalMatches))
        /\ UNCHANGED <<searchQuery, debounceTimer, searchOpen, searchMatchCase,
                       searchWholeWords, allSearchMatches, searchResultsCount,
                       textContent, textLayer, lastReport, reportOrder>>
        /\ UNCHANGED <<burst, renderVars, call>>

handleSearchNext ==
    LET totalMatches == SumMatches(allSearchMatches)
    IN  /\ NoEffectPending
        /\ searchOpen
        /\ nav' = [op |-> "next", from |-> currentSearchResult, total |-> totalMatches]
        /\ IF totalMatches = 0
           THEN UNCHANGED <<currentSearchResult, currentPage, effectPending,
                            toolbarSearchResultsCount>>
           ELSE NavigateTo(NextResult(currentSearchResult, totalMatches))
        /\ UNCHANGED <<searchQuery, debounceTimer, searchOpen, searchMatchCase,
                       searchWholeWords, allSearchMatches, searchResultsCount,
                       textContent, textLayer, lastReport, reportOrder>>
        /\ UNCHANGED <<burst, renderVars, call>>

handleSearchPrev ==
    LET totalMatches == SumMatches(allSearchMatches)
    IN  /\ NoEffectPending
        /\ searchOpen
        /\ nav' = [op |-> "prev", from |-> currentSearchResult, total |-> totalMatches]
        /\ IF totalMatches = 0
           THEN UNCHANGED <<currentSearchResult, currentPage, effectPending,
                            toolbarSearchResultsCount>>
           ELSE NavigateTo(PrevResult(currentSearchResult, totalMatches))
        /\ UNCHANGED <<searchQuery, debounceTimer, searchOpen, searchMatchCase,
                       searchWholeWords, allSearchMatches, searchResultsCount,
                       textContent, textLayer, lastReport, reportOrder>>
        /\ UNCHANGED <<burst, renderVars, call>>

(***************************************************************************)
(* The render pipeline of one PageCanvas: renderPage() and its suspension  *)
(* points.  An invocation r of page p is renders[p][r]; pc names the await *)
(* it is suspended at, task the state of its render task.                  *)
(***************************************************************************)
SearchUnchanged ==
    UNCHANGED <<searchQuery, debounceTimer, searchOpen, searchMatchCase,
                searchWholeWords, currentSearchResult, currentPage,
                allSearchMatches, searchResultsCount,
                   toolbarSearchResultsCount, lastReport, reportOrder, nav,
                burst, call>>

\* renders[p] after cleanup(): the task currentRenderRef holds is cancelled
CleanupRenders(p) ==
    LET cur == currentRenderRef[p]
    IN  IF cur # NoRender /\ renders[p][cur].task = "running"
        THEN [renders[p] EXCEPT ![cur].task = "cancelled"]
        ELSE renders[p]

\* arr.filter(x => x !== c)
RECURSIVE Without(_, _)
Without(canvases, c) ==
    IF canvases = << >> THEN << >>
    ELSE (IF Head(canvases) = c THEN << >> ELSE <<Head(canvases)>>)
         \o Without(Tail(canvases), c)

\* the container's canvases after cleanup(): the canvas currentRenderRef holds
\* is removed
CleanupCanvases(p) ==
    IF currentRenderRef[p] # NoRender
    THEN Without(containerCanvases[p], currentRenderRef[p])
    ELSE containerCanvases[p]

\* a scheduled renderPage() call runs up to its first await
RenderPage(p) ==
    /\ renderCalls[p] > 0
    /\ renderCalls' = [renderCalls EXCEPT ![p] = @ - 1]
    /\ IF error[p]
       THEN \* containerRef.current is null: return
            UNCHANGED <<renders, currentRenderRef, containerCanvases, isLoading, error>>
       ELSE /\ renders' = [renders EXCEPT ![p] =
                              Append(CleanupRenders(p), [pc |-> "getPage", task |-> "none"])]
            /\ containerCanvases' = [containerCanvases EXCEPT ![p] = CleanupCanvases(p)]
            /\ currentRenderRef' = [currentRenderRef EXCEPT ![p] = NoRender]
            /\ isLoading' = [isLoading EXCEPT ![p] = TRUE]
            /\ error' = [error EXCEPT ![p] = FALSE]
    /\ SearchUnchanged
    /\ UNCHANGED textLayerBuiltBy
    /\ UNCHANGED <<textContent, textLayer, effectPending>>

\* document.getPage() resolved: the canvas is created and attached, the render
\* task is started and stored in currentRenderRef
GetPageResolves(p, r) ==
    /\ renders[p][r].pc = "getPage"
    /\ renders' = [renders EXCEPT ![p][r] = [pc |-> "render", task |-> "running"]]
    /\ containerCanvases' =
          IF error[p] THEN containerCanvases
          ELSE [containerCanvases EXCEPT ![p] =
                   Append(IF @ = << >> THEN @ ELSE Tail(@), r)]
    /\ currentRenderRef' = [currentRenderRef EXCEPT ![p] = r]
    /\ SearchUnchanged
    /\ UNCHANGED textLayerBuiltBy
    /\ UNCHANGED <<renderCalls, isLoading, error, textContent, textLayer, effectPending>>

\* renderTask.promise resolved: the check against currentRenderRef
RenderTaskCompletes(p, r) ==
    /\ renders[p][r].pc = "render"
    /\ renders[p][r].task = "running"
    /\ renders' = [renders EXCEPT ![p][r] =
                      [pc |-> IF currentRenderRef[p] = r THEN "getTextContent" ELSE "done",
                       task |-> "completed"]]
    /\ SearchUnchanged
    /\ UNCHANGED textLayerBuiltBy
    /\ UNCHANGED <<renderCalls, currentRenderRef, containerCanvases, isLoading, error,
                   textContent, textLayer, effectPending>>

\* renderTask.promise of a cancelled task rejected with
\* RenderingCancelledException: the catch block returns
RenderTaskRejectsCancelled(p, r) ==
    /\ renders[p][r].pc = "render"
    /\ renders[p][r].task = "cancelled"
    /\ renders' = [renders EXCEPT ![p][r].pc = "done"]
    /\ SearchUnchanged
    /\ UNCHANGED textLayerBuiltBy
    /\ UNCHANGED <<renderCalls, currentRenderRef, containerCanvases, isLoading, error,
                   textContent, textLayer, effectPending>>

\* page.getTextContent() resolved: setTextContent and the text layer build
GetTextContentResolves(p, r) ==
    /\ renders[p][r].pc = "getTextContent"
    /\ SetTextContent(p)
    /\ IF error[p]
       THEN \* annotationLayerRef.current is null
            /\ renders' = [renders EXCEPT ![p][r].pc = "done"]
            /\ isLoading' = [isLoading EXCEPT ![p] = FALSE]
       ELSE /\ renders' = [renders EXCEPT ![p][r].pc = "getAnnotations"]
            /\ UNCHANGED isLoading
    /\ textLayerBuiltBy' = IF error[p] THEN textLayerBuiltBy
                          ELSE [textLayerBuiltBy EXCEPT ![p] = r]
    /\ SearchUnchanged
    /\ UNCHANGED <<renderCalls, currentRenderRef, containerCanvases, error>>

\* the end of renderPage without setIsLoading(false)
GetAnnotationsSettles_KeepsLoading(p, r) ==
    /\ renders[p][r].pc = "getAnnotations"
    /\ renders' = [renders EXCEPT ![p][r].pc = "done"]
    /\ SearchUnchanged
    /\ UNCHANGED <<renderCalls, currentRenderRef, containerCanvases, error, isLoading,
                   textLayerBuiltBy, textContent, textLayer, effectPending>>

\* page.getAnnotations() settled (a rejection is caught and logged):
\* setIsLoading(false)
GetAnnotationsSettles(p, r) ==
    /\ renders[p][r].pc = "getAnnotations"
    /\ renders' = [renders EXCEPT ![p][r].pc = "done"]
    /\ isLoading' = [isLoading EXCEPT ![p] = FALSE]
    /\ SearchUnchanged
    /\ UNCHANGED textLayerBuiltBy
    /\ UNCHANGED <<renderCalls, currentRenderRef, containerCanvases, error,
                   textContent, textLayer, effectPending>>

\* getPage(), the render task or getTextContent() rejected with an error that
\* is not a cancellation: the catch block sets the error
RenderFails(p, r) ==
    /\ \/ renders[p][r].pc = "getPage"
       \/ renders[p][r].pc = "render" /\ renders[p][r].task = "running"
       \/ renders[p][r].pc = "getTextContent"
    /\ renders' = [renders EXCEPT ![p][r] =
                      [pc |-> "done",
                       task |-> IF @.task = "running" THEN "failed" ELSE @.task]]
    /\ error' = [error EXCEPT ![p] = TRUE]
    /\ isLoading' = [isLoading EXCEPT ![p] = FALSE]
    /\ SearchUnchanged
    /\ UNCHANGED textLayerBuiltBy
    /\ UNCHANGED <<renderCalls, currentRenderRef, containerCanvases,
                   textContent, textLayer, effectPending>>

\* state.scale changed: in every PageCanvas the renderPage effect runs for
\* the new renderPage and again for the renderKey the scale effect bumped
ScaleChange ==
    /\ \A p \in Pages : Len(renders[p]) + renderCalls[p] + 2 <= MaxRenders
    /\ renderCalls' = [p \in Pages |-> renderCalls[p] + 2]
    /\ SearchUnchanged
    /\ UNCHANGED textLayerBuiltBy
    /\ UNCHANGED <<renders, currentRenderRef, containerCanvases, isLoading, error,
                   textContent, textLayer, effectPending>>

(***************************************************************************)
(* Calls of the search functions of utils on text content and queries      *)
(* drawn from bounded sets: every text of up to MaxChars characters, whole *)
(* or cut into two text items, every query of up to MaxQueryLen            *)
(* characters, and the documents and queries below.                        *)
(***************************************************************************)
Chars == {"a", "A", " ", "."}

StringsUpTo(n) == UNION { [1..k -> Chars] : k \in 0..n }

\* textContent.items (the str of each item) of the enumerated documents
EnumeratedItems ==
    UNION { { <<t>> } \cup { <<Substring(t, 0, k), Substring(t, k, Len(t))>> :
                               k \in 0..Len(t) } : t \in StringsUpTo(MaxChars) }

ExampleInputs ==
    { [items |-> << <<"b", "a", "n", "a", "n", "a">> >>, query |-> <<"a", "n", "a">>],
      [items |-> << <<"c", "a", "t", " ", "c", "a", "t", "e", "g", "o", "r", "y", " ",
                     "c", "a", "t", "a", "l", "o", "g">> >>,
       query |-> <<"c", "a", "t">>],
      [items |-> << <<"H", "e", "l">>, <<"l", "o", " ", "w", "o", "r">>, <<"l", "d">> >>, query |-> <<"l", "o", " ", "w", "o">>],
      [items |-> << <<"H", "e", "l">>, <<"l", "o", " ", "w", "o", "r">>, <<"l", "d">> >>, query |-> <<"L", "L">>],
      [items |-> << <<"H", "e", "l">>, <<"l", "o", " ", "w", "o", "r">>, <<"l", "d">> >>, query |-> <<"l", "l", "o", " ", "w", "o", "r", "l">>],
      [items |-> << <<"a", ".", "a", ".", "a">> >>, query |-> <<"a", ".", "a">>],
      [items |-> << <<"a", " ", "<", " ", "b", " ", "&", " ", "c", ">">> >>, query |-> <<"b">>],
      [items |-> << <<"x", " ", "<", "b", ">", " ", "y">> >>, query |-> <<"x">>],
      [items |-> << <<"c", "+", "+", " ", "a", "b">> >>, query |-> <<"c", "+", "+">>] }

CallInputs ==
    { [items |-> i, query |-> q] :
         i \in EnumeratedItems, q \in StringsUpTo(MaxQueryLen) }
    \cup ExampleInputs

InitSearch ==
    /\ InitViewer
    /\ call \in { [fn |-> "none", items |-> in.items, query |-> in.query,
                   matchCase |-> mc, wholeWords |-> ww, result |-> << >>] :
                     in \in CallInputs, mc \in BOOLEAN, ww \in BOOLEAN }

CallSearchInPage ==
    /\ call.fn = "none"
    /\ call' = [call EXCEPT !.fn = "searchInPage",
                            !.result = searchInPage(call.items, call.query,
                                                    call.matchCase, call.wholeWords)]
    /\ UNCHANGED <<searchVars, renderVars>>

CallSearchInPagePDFJS ==
    /\ call.fn = "none"
    /\ call' = [call EXCEPT !.fn = "searchInPagePDFJS",
                            !.result = searchInPagePDFJS(call.items, call.query)]
    /\ UNCHANGED <<searchVars, renderVars>>

CallSearchInPageAdvanced ==
    /\ call.fn = "none"
    /\ call' = [call EXCEPT !.fn = "searchInPageAdvanced",
                            !.result = searchInPageAdvanced(call.items, call.query)]
    /\ UNCHANGED <<searchVars, renderVars>>

\* highlightSearchMatch on a freshly built text layer, for the k-th match that
\* searchInPageAdvanced returned
CallHighlightSearchMatch(k) ==
    /\ call.fn = "searchInPageAdvanced"
    /\ k \in 1..Len(call.result)
    /\ call' = [call EXCEPT
                  !.fn = "highlightSearchMatch",
                  !.result = [match    |-> call.result[k],
                              children |-> highlightSearchMatch(TextDivs(call.items),
                                               call.items, call.result[k], k - 1)]]
    /\ UNCHANGED <<searchVars, renderVars>>

\* highlightTextInElement and then clearHighlightsInElement, twice, on the
\* text div of the n-th text item with the matches searchInPage returned for
\* it, none of them selected
CallHighlightTextInElement(n) ==
    /\ call.fn = "searchInPage"
    /\ n \in 1..Len(call.items)
    /\ FilterByItem(call.result, n - 1) # << >>
    /\ LET highlighted == HighlightedInnerHTML(call.items[n],
                                               FilterByItem(call.result, n - 1), -1)
           cleared     == ClearedInnerHTML(highlighted)
       IN  call' = [call EXCEPT
                      !.fn = "highlightTextInElement",
                      !.result = [originalText |-> call.items[n],
                                  highlighted  |-> highlighted,
                                  cleared      |-> cleared,
                                  clearedTwice |-> ClearedInnerHTML(cleared)]]
    /\ UNCHANGED <<searchVars, renderVars>>

NextSearch ==
    \/ \E n \in 1..Len(call.items) : CallHighlightTextInElement(n)
    \/ CallSearchInPage
    \/ CallSearchInPagePDFJS
    \/ CallSearchInPageAdvanced
    \/ \E k \in 1..MaxChars : CallHighlightSearchMatch(k)

SpecSearch == InitSearch /\ [][NextSearch]_vars

(***************************************************************************)
(* Text layer builds of one page at the viewport scales 1..MaxScale, for   *)
(* text content of one or two text items drawn from a bounded set.         *)
(***************************************************************************)
\* the height of the page in PDF units
PageHeight == 20

\* page.getViewport({ scale }).transform of an unrotated page
ViewportTransform(scale) == <<scale, 0, 0, -scale, 0, PageHeight * scale>>

\* transforms of text runs: upright and rotated by a quarter turn, font sizes
\* 5 and 10
RunTransforms ==
    { <<5, 0, 0, 5, 1, 2>>, <<0, 5, -5, 0, 3, 1>>, <<10, 0, 0, 10, 0, 4>> }

TextRuns ==
    { [str |-> str, hasWidth |-> hw, width |-> w, hasHeight |-> hh, height |-> h,
       transform |-> tr] :
         str \in { << >>, <<"a">>, <<"a", "b">> },
         hw \in BOOLEAN, w \in {0, 4}, hh \in BOOLEAN, h \in {0, 2},
         tr \in RunTransforms }

\* an undeclared property has no value
DeclaredRuns ==
    { r \in TextRuns : (~r.hasWidth => r.width = 0) /\ (~r.hasHeight => r.height = 0) }

InitLayout ==
    /\ InitViewer
    /\ call \in { [fn |-> "none", items |-> items, scale |-> 0, result |-> << >>] :
                     items \in { <<r>> : r \in DeclaredRuns }
                               \cup { <<r1, r2>> : r1 \in DeclaredRuns,
                                                   r2 \in { r \in DeclaredRuns :
                                                              r.transform = <<5, 0, 0, 5, 1, 2>> } } }

\* the current render of the page builds the text layer at a viewport scale
BuildTextLayerAt(scale) ==
    /\ call.scale # scale
    /\ call' = [call EXCEPT
                  !.fn = "buildTextLayer",
                  !.scale = scale,
                  !.result = BuildTextLayerDivs(call.result, call.items,
                                                ViewportTransform(scale))]
    /\ UNCHANGED <<searchVars, renderVars>>

NextLayout == \E scale \in 1..MaxScale : BuildTextLayerAt(scale)

SpecLayout == InitLayout /\ [][NextLayout]_vars

(***************************************************************************)
(* The debounced handleSearchChange in time.  The state of the closure     *)
(* that debounce() returns is the timer: whether it is set, when it is     *)
(* due and the arguments it will pass.  now is the time in milliseconds,   *)
(* lastChange the time of the last call, query the query committed by      *)
(* setState and committedAt the time of that commit.  A timer fires when   *)
(* it is due or later, never earlier.                                      *)
(***************************************************************************)
\* the wait handed to debounce() by PDFViewer
DebounceWait == 100

\* the steps by which time advances
Delays == {50, 100}

InitDebounce ==
    /\ InitViewer
    /\ call = [fn |-> "none", armed |-> FALSE, due |-> 0, args |-> << >>,
               now |-> 0, lastChange |-> 0, query |-> << >>, committedAt |-> 0]

TimePasses(d) ==
    /\ call.now + d <= MaxTime
    /\ call' = [call EXCEPT !.fn = "wait", !.now = @ + d]
    /\ UNCHANGED <<searchVars, renderVars>>

\* the function debounce() returned is called: clearTimeout, setTimeout
DebouncedCall(query) ==
    /\ call' = [call EXCEPT !.fn = "handleSearchChange",
                            !.armed = TRUE,
                            !.due = call.now + DebounceWait,
                            !.args = query,
                            !.lastChange = call.now]
    /\ UNCHANGED <<searchVars, renderVars>>

\* the timeout fires: func.apply(null, args) commits the query
TimeoutFires ==
    /\ call.armed
    /\ call.now >= call.due
    /\ call' = [call EXCEPT !.fn = "timeout",
                            !.armed = FALSE,
                            !.query = call.args,
                            !.committedAt = call.now]
    /\ UNCHANGED <<searchVars, renderVars>>

NextDebounce ==
    \/ \E d \in Delays : TimePasses(d)
    \/ \E query \in Queries : DebouncedCall(query)
    \/ TimeoutFires

SpecDebounce == InitDebounce /\ [][NextDebounce]_vars

(***************************************************************************)
(* Loading the document (PDFViewer.tsx).  The load effect calls            *)
(* loadFileFromUrl for every value of the pdfUrl prop.  The state is       *)
(* [loads, document, numPages, fileData, currentPage, isLoading, error]:   *)
(* loads holds the invocations of loadFileFromUrl, each [url, pc] with pc  *)
(* the await it is suspended at; document and fileData are named by the    *)
(* URL they were loaded from, NoDocument when null; page is the argument of *)
(* the last handlePageChange call.                                         *)
(***************************************************************************)
Urls == {"a.pdf", "b.pdf"}

\* document.numPages of the document behind a URL
NumPagesOf(url) == IF url = "a.pdf" THEN 2 ELSE 3

NoDocument == "null"

InitLoad ==
    /\ InitViewer
    /\ call = [fn |-> "none", loads |-> << >>, document |-> NoDocument, numPages |-> 0,
               fileData |-> NoDocument, currentPage |-> 1, isLoading |-> FALSE,
               error |-> FALSE, page |-> 0]

\* the pdfUrl prop takes a new value: the load effect calls loadFileFromUrl,
\* which runs up to await fetch(url)
PdfUrlChanges(url) ==
    /\ Len(call.loads) < MaxLoads
    /\ call.loads # << >> => call.loads[Len(call.loads)].url # url
    /\ call' = [call EXCEPT !.fn = "loadFileFromUrl",
                            !.loads = Append(@, [url |-> url, pc |-> "fetch"]),
                            !.isLoading = TRUE,
                            !.error = FALSE]
    /\ UNCHANGED <<searchVars, renderVars>>

\* fetch(url) resolved with an ok response
FetchResolves(l) ==
    /\ call.loads[l].pc = "fetch"
    /\ call' = [call EXCEPT !.fn = "fetch", !.loads[l].pc = "arrayBuffer"]
    /\ UNCHANGED <<searchVars, renderVars>>

\* response.arrayBuffer() resolved: loadDocumentFromBuffer runs up to
\* await loadPDFDocument(arrayBuffer)
ArrayBufferResolves(l) ==
    /\ call.loads[l].pc = "arrayBuffer"
    /\ call' = [call EXCEPT !.fn = "arrayBuffer", !.loads[l].pc = "loadPDFDocument"]
    /\ UNCHANGED <<searchVars, renderVars>>

\* loadPDFDocument resolved with a setState that leaves currentPage alone
LoadPDFDocumentResolves_KeepsPage(l) ==
    /\ call.loads[l].pc = "loadPDFDocument"
    /\ call' = [call EXCEPT !.fn = "loadPDFDocument",
                            !.loads[l].pc = "done",
                            !.fileData = call.loads[l].url,
                            !.document = call.loads[l].url,
                            !.numPages = NumPagesOf(call.loads[l].url),
                            !.isLoading = FALSE,
                            !.error = FALSE]
    /\ UNCHANGED <<searchVars, renderVars>>

\* loadPDFDocument resolved: fileDataRef and the document state are set
LoadPDFDocumentResolves(l) ==
    /\ call.loads[l].pc = "loadPDFDocument"
    /\ call' = [call EXCEPT !.fn = "loadPDFDocument",
                            !.loads[l].pc = "done",
                            !.fileData = call.loads[l].url,
                            !.document = call.loads[l].url,
                            !.numPages = NumPagesOf(call.loads[l].url),
                            !.currentPage = 1,
                            !.isLoading = FALSE,
                            !.error = FALSE]
    /\ UNCHANGED <<searchVars, renderVars>>

\* fetch, arrayBuffer or loadPDFDocument rejected, or the response was not
\* ok: the catch block sets the error
LoadFails(l) ==
    /\ call.loads[l].pc \in {"fetch", "arrayBuffer", "loadPDFDocument"}
    /\ call' = [call EXCEPT !.fn = "catch",
                            !.loads[l].pc = "failed",
                            !.isLoading = FALSE,
                            !.error = TRUE]
    /\ UNCHANGED <<searchVars, renderVars>>

NextLoad ==
    \/ \E url \in Urls : PdfUrlChanges(url)
    \/ \E l \in 1..Len(call.loads) : FetchResolves(l)
    \/ \E l \in 1..Len(call.loads) : ArrayBufferResolves(l)
    \/ \E l \in 1..Len(call.loads) : LoadPDFDocumentResolves(l)
    \/ \E l \in 1..Len(call.loads) : LoadFails(l)

SpecLoad == InitLoad /\ [][NextLoad]_vars

(***************************************************************************)
(* Page changes of the loaded viewer: the toolbar's page input and         *)
(* buttons, the keyboard shortcuts, the sidebar's thumbnails, the scroll   *)
(* listener and the search navigation, together with document loads.      *)
(***************************************************************************)
\* the largest numPages of the documents
MaxNumPages == 3

Min(a, b) == IF a <= b THEN a ELSE b

Max(a, b) == IF a >= b THEN a ELSE b

\* handlePageChange(page) on the state of the loaded viewer
HandlePageChangeCalled(page) ==
    /\ call' = [call EXCEPT !.fn = "handlePageChange",
                            !.page = page,
                            !.currentPage = IF page >= 1 /\ page <= call.numPages
                                            THEN page ELSE @]
    /\ UNCHANGED <<searchVars, renderVars>>

\* Enter or blur in the toolbar's page input holding pageNum
handlePageInputBlur(pageNum) ==
    /\ ~call.isLoading
    /\ pageNum >= 1 /\ pageNum <= call.numPages
    /\ HandlePageChangeCalled(pageNum)

\* the toolbar's Previous Page button
PreviousPageClicked ==
    /\ ~(call.currentPage <= 1 \/ call.isLoading)
    /\ HandlePageChangeCalled(Max(1, call.currentPage - 1))

\* the toolbar's Next Page button
NextPageClicked ==
    /\ ~(call.currentPage >= call.numPages \/ call.isLoading)
    /\ HandlePageChangeCalled(Min(call.numPages, call.currentPage + 1))

\* handleKeyDown for the keys that change the page
handleKeyDown(key) ==
    HandlePageChangeCalled(
        CASE key \in {"ArrowLeft", "PageUp"} -> Max(1, call.currentPage - 1)
          [] key \in {"ArrowRight", "PageDown"} -> Min(call.numPages, call.currentPage + 1)
          [] key = "Home" -> 1
          [] key = "End" -> call.numPages)

\* a click on the thumbnail with an index: the sidebar may still show the
\* thumbnails of the document loaded before
ThumbnailClicked(index) == HandlePageChangeCalled(index + 1)

\* the timeout of handleScroll fires: the effect that set it is the one of the
\* current document, numPages and currentPage
handleScroll(closestPage) ==
    /\ call.document # NoDocument
    /\ ~call.error
    /\ closestPage >= 1 /\ closestPage <= call.numPages
    /\ closestPage # call.currentPage
    /\ call' = [call EXCEPT !.fn = "handleScroll", !.currentPage = closestPage]
    /\ UNCHANGED <<searchVars, renderVars>>

\* handleSearchNext or handleSearchPrev found resultPage: the aggregate is a
\* ref and may hold entries of pages of the document loaded before
SearchResultPageFound(resultPage) == HandlePageChangeCalled(resultPage)

NextPages ==
    \/ NextLoad
    \/ \E pageNum \in 0..(MaxNumPages + 1) : handlePageInputBlur(pageNum)
    \/ PreviousPageClicked
    \/ NextPageClicked
    \/ \E key \in {"ArrowLeft", "PageUp", "ArrowRight", "PageDown", "Home", "End"} :
          handleKeyDown(key)
    \/ \E index \in 0..(MaxNumPages - 1) : ThumbnailClicked(index)
    \/ \E closestPage \in 1..MaxNumPages : handleScroll(closestPage)
    \/ \E resultPage \in 1..MaxNumPages : SearchResultPageFound(resultPage)

SpecPages == InitLoad /\ [][NextPages]_vars

\* Every PageCanvas keeps its render state (refs and component state) to
\* itself, so the pipelines of different pages share no variable; SpecRender
\* follows the pipeline of one page through all its interleavings.
ObservedPage == CHOOSE p \in Pages : \A q \in Pages : p <= q

NextRender ==
    \/ RenderPage(ObservedPage)
    \/ \E r \in 1..Len(renders[ObservedPage]) : GetPageResolves(ObservedPage, r)
    \/ \E r \in 1..Len(renders[ObservedPage]) : RenderTaskCompletes(ObservedPage, r)
    \/ \E r \in 1..Len(renders[ObservedPage]) : RenderTaskRejectsCancelled(ObservedPage, r)
    \/ \E r \in 1..Len(renders[ObservedPage]) : GetTextContentResolves(ObservedPage, r)
    \/ \E r \in 1..Len(renders[ObservedPage]) : GetAnnotationsSettles(ObservedPage, r)
    \/ \E r \in 1..Len(renders[ObservedPage]) : RenderFails(ObservedPage, r)
    \/ ScaleChange

SpecRender == Init /\ [][NextRender]_vars

\* Every promise of the pipeline settles and every scheduled renderPage call
\* runs; scale changes are up to the user.
RenderProgress ==
    \/ RenderPage(ObservedPage)
    \/ \E r \in 1..Len(renders[ObservedPage]) : GetPageResolves(ObservedPage, r)
    \/ \E r \in 1..Len(renders[ObservedPage]) : RenderTaskCompletes(ObservedPage, r)
    \/ \E r \in 1..Len(renders[ObservedPage]) : RenderTaskRejectsCancelled(ObservedPage, r)
    \/ \E r \in 1..Len(renders[ObservedPage]) : GetTextContentResolves(ObservedPage, r)
    \/ \E r \in 1..Len(renders[ObservedPage]) : GetAnnotationsSettles(ObservedPage, r)
    \/ \E r \in 1..Len(renders[ObservedPage]) : RenderFails(ObservedPage, r)

SpecRenderFair == SpecRender /\ WF_vars(RenderProgress)

Next ==
    \/ \E p \in Pages : RunEffect(p)
    \/ \E p \in Pages : TextContentArrives(p)
    \/ \E page \in 0..(NumPages + 1) : HandlePageChange(page)
    \/ handleSearchToggle
    \/ \E query \in Queries : handleSearchChange(query)
    \/ DebounceFire
    \/ handleSearchMatchCaseChange(~searchMatchCase)
    \/ handleSearchWholeWordsChange(~searchWholeWords)
    \/ handleSearchNext
    \/ handleSearchPrev

Spec == Init /\ [][Next]_vars

(***************************************************************************)
(* The search together with renders that fail.  As TextContentArrives is   *)
(* what the search sees of a render that succeeds, RenderFailed is what it *)
(* sees of one that fails: the catch block of renderPage sets the error,   *)
(* the component returns the error view, and containerRef and textLayerRef *)
(* are null from then on.  The state textContent keeps its value, and no   *)
(* dependency of the highlighting effect changes.                          *)
(***************************************************************************)
RenderFailed(p) ==
    /\ NoEffectPending
    /\ ~error[p]
    /\ error' = [error EXCEPT ![p] = TRUE]
    /\ isLoading' = [isLoading EXCEPT ![p] = FALSE]
    /\ nav' = NoNav
    /\ UNCHANGED <<searchQuery, debounceTimer, searchOpen, searchMatchCase,
                   searchWholeWords, currentSearchResult, currentPage,
                   allSearchMatches, searchResultsCount,
                   toolbarSearchResultsCount, textContent, textLayer,
                   effectPending, lastReport, reportOrder, burst>>
    /\ UNCHANGED <<renderCalls, renders, currentRenderRef, containerCanvases,
                   textLayerBuiltBy, call>>

\* the renders of one page fail, those of the other pages succeed
NextWithFailures == Next \/ RenderFailed(ObservedPage)

SpecWithFailures == Init /\ [][NextWithFailures]_vars

(***************************************************************************)
(* Definitions used by the properties.                                     *)
(***************************************************************************)
Total == SumMatches(allSearchMatches)

\* no effect and no debounce timer is pending
AtRest == NoEffectPending /\ ~debounceTimer.armed

\* the entry of page p in the aggregate, if any
InAggregate(p) == \E i \in 1..Len(allSearchMatches) : allSearchMatches[i].pageNumber = p

EntryOf(p) ==
    allSearchMatches[CHOOSE i \in 1..Len(allSearchMatches) :
                        allSearchMatches[i].pageNumber = p]

CountOf(p) == IF InAggregate(p) THEN Len(EntryOf(p).matches) ELSE 0

\* the sum of the match counts of the entries with a page number below p
RECURSIVE CountBelow(_)
CountBelow(p) == IF p <= 1 THEN 0 ELSE CountOf(p - 1) + CountBelow(p - 1)

\* the number of highlight spans in the first n divs of a text layer
RECURSIVE SpansIn(_, _)
SpansIn(divs, n) == IF n = 0 THEN 0 ELSE Len(divs[n]) + SpansIn(divs, n - 1)

\* the rendered highlights flagged selected, as <<page, in-page match index>>
SelectedSpans ==
    { s \in UNION { {p} \X (0..(SpansIn(textLayer[p], Len(textLayer[p])) - 1)) : p \in Pages } :
        \E i \in 1..Len(textLayer[s[1]]) : \E j \in 1..Len(textLayer[s[1]][i]) :
            /\ textLayer[s[1]][i][j].selected
            /\ s[2] = SpansIn(textLayer[s[1]], i - 1) + j - 1 }

(***************************************************************************)
(* C1: whenever the total match count is greater than 0, the global cursor *)
(* satisfies 0 <= cursor < total.  Stated for the states at rest (no       *)
(* effect and no debounce timer pending), where the claim is weakest.      *)
(***************************************************************************)
C1_CursorInRange ==
    (AtRest /\ Total > 0) =>
        (0 <= currentSearchResult /\ currentSearchResult < Total)

(***************************************************************************)
(* C2: when all pending highlight effects have run and the total is > 0,   *)
(* exactly one rendered match is flagged selected and its global index is  *)
(* the cursor; when the total is 0 no match is flagged selected.  Stated   *)
(* for the states in which the cursor is inside [0, total), so that it     *)
(* does not rest on C1.                                                    *)
(***************************************************************************)
C2_ExactlyOneSelected ==
    (NoEffectPending /\ (Total > 0 => currentSearchResult < Total)) =>
        IF Total > 0
        THEN \E s \in SelectedSpans :
                /\ SelectedSpans = {s}
                /\ getCurrentMatchIndex(allSearchMatches, s[1], s[2]) = currentSearchResult
        ELSE SelectedSpans = {}

(***************************************************************************)
(* C3: after every updateSearchMatches, in any order of pages and          *)
(* interleaved with clears, allSearchMatches is sorted by strictly         *)
(* ascending page number (so it holds at most one entry per page).         *)
(***************************************************************************)
C3_SortedOnePerPage ==
    \A i \in 1..(Len(allSearchMatches) - 1) :
        allSearchMatches[i].pageNumber < allSearchMatches[i + 1].pageNumber

\* a later page entered the aggregate before an earlier one
C3_Witness ==
    /\ Len(reportOrder) >= 2
    /\ reportOrder[1] > reportOrder[2]
    /\ Len(allSearchMatches) = Len(reportOrder)

(***************************************************************************)
(* C4: in every reachable state searchResultsCount is the sum of the       *)
(* lengths of the match lists in allSearchMatches.                         *)
(***************************************************************************)
C4_CountIsSum == searchResultsCount = SumMatches(allSearchMatches)

\* both pages re-reported fewer matches than they had before: the cursor was
\* moved to 2 under a query with more matches
C4_Witness ==
    /\ NoEffectPending
    /\ searchQuery = <<"b">>
    /\ currentSearchResult >= 2
    /\ searchResultsCount = 2

(***************************************************************************)
(* C5: with total T > 0, handleSearchNext sets the cursor to               *)
(* (cursor + 1) mod T and handleSearchPrev to (cursor - 1) mod T, and the  *)
(* cursor is in [0, T) afterwards.                                         *)
(***************************************************************************)
C5_NextPrevModulo ==
    /\ (nav.op = "next" /\ nav.total > 0) =>
          /\ currentSearchResult = (nav.from + 1) % nav.total
          /\ currentSearchResult \in 0..(nav.total - 1)
    /\ (nav.op = "prev" /\ nav.total > 0) =>
          /\ currentSearchResult = (nav.from + nav.total - 1) % nav.total
          /\ currentSearchResult \in 0..(nav.total - 1)

(***************************************************************************)
(* C6: when the total match count is 0, handleSearchNext and               *)
(* handleSearchPrev leave the cursor, the current page and the aggregate   *)
(* unchanged.                                                              *)
(***************************************************************************)
C6_NoOpWhenEmpty ==
    [][((handleSearchNext \/ handleSearchPrev) /\ Total = 0) =>
          UNCHANGED <<currentSearchResult, currentPage, allSearchMatches,
                      searchResultsCount>>]_vars

\* next or prev was handled with total 0 and a cursor left over at 2 or more
C6_Witness ==
    /\ nav.op \in {"next", "prev"}
    /\ nav.total = 0
    /\ nav.from >= 2

(***************************************************************************)
(* C7: findPageForSearchResult(g) is null exactly when g is outside        *)
(* [0, total); inside, it is the page p whose range of global indices      *)
(* [sum of counts below p, that sum + count of p) holds g.                 *)
(***************************************************************************)
C7_FindPage ==
    \A g \in (0 - 2)..(Total + 2) :
        LET r == findPageForSearchResult(allSearchMatches, g)
        IN  /\ (r = NullPage) <=> (g < 0 \/ g >= Total)
            /\ r # NullPage =>
                 /\ InAggregate(r)
                 /\ CountOf(r) > 0
                 /\ CountBelow(r) <= g
                 /\ g < CountBelow(r) + CountOf(r)

\* an entry without matches precedes an entry with matches
C7_Witness ==
    /\ InAggregate(1) /\ CountOf(1) = 0
    /\ CountOf(2) >= 2

(***************************************************************************)
(* C8: getCurrentMatchIndex is the inverse of the resolution of a global   *)
(* index to (page, in-page index) on a fixed aggregate, in both            *)
(* directions.                                                             *)
(***************************************************************************)
C8_Inverse ==
    /\ \A p \in Pages : \A i \in 0..(CountOf(p) - 1) :
          scrollToSearchResult(allSearchMatches,
                               getCurrentMatchIndex(allSearchMatches, p, i))
            = [pageNumber |-> p, matchIndexInPage |-> i]
    /\ \A g \in 0..(Total - 1) :
          LET r == scrollToSearchResult(allSearchMatches, g)
          IN  getCurrentMatchIndex(allSearchMatches, r.pageNumber, r.matchIndexInPage) = g

\* two pages hold 2 and 3 matches
C8_Witness == CountOf(1) = 2 /\ CountOf(2) = 3

(***************************************************************************)
(* C9: the aggregate and the total depend only on the last report of each  *)
(* page, not on the order in which the pages reported: the list is the     *)
(* last reports in ascending page order.                                   *)
(***************************************************************************)
RECURSIVE LastReportsUpTo(_)
LastReportsUpTo(n) ==
    IF n = 0 THEN << >>
    ELSE LastReportsUpTo(n - 1)
         \o (IF lastReport[n].reported
             THEN <<[pageNumber |-> n, matches |-> lastReport[n].matches]>>
             ELSE << >>)

C9_OrderIndependent ==
    /\ allSearchMatches = LastReportsUpTo(NumPages)
    /\ searchResultsCount = SumMatches(LastReportsUpTo(NumPages))

\* page 2 reported before page 1, and both hold matches
C9_Witness ==
    /\ Len(reportOrder) >= 2
    /\ reportOrder[1] = 2 /\ reportOrder[2] = 1
    /\ CountOf(1) > 0 /\ CountOf(2) > 0

(***************************************************************************)
(* C10: a new render of a page cancels the previous one: per page at most  *)
(* one render task is started and neither completed nor cancelled.         *)
(***************************************************************************)
RunningTasks(p) == { r \in 1..Len(renders[p]) : renders[p][r].task = "running" }

C10_OneRunningTask == \A p \in Pages : Cardinality(RunningTasks(p)) <= 1

(***************************************************************************)
(* C11: once a newer render of a page has been started, no result of an    *)
(* older render of that page is applied: a step in which an invocation     *)
(* that is not the newest one of its page resumes (at getPage, the render  *)
(* promise, getTextContent or getAnnotations) never calls setTextContent,  *)
(* never rebuilds the text layer and leaves isLoading and error alone.     *)
(***************************************************************************)
\* invocation r of page p resumes in this step
Resumes(p, r) ==
    /\ Len(renders'[p]) = Len(renders[p])
    /\ renders'[p][r] # renders[p][r]

\* a newer renderPage() invocation of page p than r has been started
Superseded(p, r) == r < Len(renders[p])

C11_NoStaleResult ==
    [][\A p \in Pages : \A r \in 1..Len(renders[p]) :
          (Superseded(p, r) /\ Resumes(p, r))
             => /\ renders[p][r].pc # "getTextContent"
                /\ textContent'[p] = textContent[p]
                /\ textLayer'[p] = textLayer[p]
                /\ isLoading'[p] = isLoading[p]
                /\ error'[p] = error[p]]_vars

(***************************************************************************)
(* C12: a cancelled or superseded render never puts the page into its      *)
(* error state: whenever error becomes set, the invocation whose failure   *)
(* set it is the newest one of the page and its task was not cancelled.    *)
(***************************************************************************)
C12_ErrorOnlyFromCurrent ==
    [][\A p \in Pages :
          (~error[p] /\ error'[p])
             => \E r \in 1..Len(renders[p]) :
                   /\ Resumes(p, r)
                   /\ ~Superseded(p, r)
                   /\ renders[p][r].task # "cancelled"]_vars

(***************************************************************************)
(* C13: query text changes are coalesced.  For a burst of                  *)
(* handleSearchChange calls, each made while the timer of the previous     *)
(* call is pending: no call of the burst commits a query or schedules a    *)
(* re-match; the burst ends with one commit, of the text of its last call, *)
(* after which no timer is left to commit again, and that commit schedules *)
(* the only effect pass of the burst; searchQuery is changed by nothing    *)
(* else than the commit that ends a burst and the closing of the panel.    *)
(***************************************************************************)
\* this step is a handleSearchChange call
BurstCall == burst'.calls = burst.calls + 1

\* this step is the commit that ends the burst
BurstCommit == burst.calls > 0 /\ burst'.calls = 0

C13_Coalesced ==
    [][/\ BurstCall => /\ debounceTimer'.armed
                       /\ UNCHANGED <<searchQuery, effectPending, allSearchMatches,
                                      searchResultsCount, currentSearchResult>>
       /\ BurstCommit => /\ searchQuery' = burst.last
                         /\ ~debounceTimer'.armed
                         /\ effectPending' \in {AllPages(TRUE), AllPages(FALSE)}
       /\ searchQuery' # searchQuery
             => \/ BurstCommit
                \/ searchOpen /\ ~searchOpen' /\ searchQuery' = << >>]_vars

\* a second call replaced the text of the first one while its timer was
\* pending, and a query committed by an earlier burst is in place
C13_Witness ==
    /\ burst.calls >= 2
    /\ debounceTimer.armed
    /\ burst.last = <<"b">>
    /\ searchQuery = <<"a">>
    /\ NoEffectPending

(***************************************************************************)
(* C14: toggling case sensitivity or whole-word schedules the highlighting *)
(* effect of every page for the next pass and leaves the debounce timer    *)
(* alone, also while a debounced query change is pending; in that pass     *)
(* every page that has text content matches the committed query with the   *)
(* new flags and reports the result.                                       *)
(***************************************************************************)
FlagToggled ==
    searchMatchCase' # searchMatchCase \/ searchWholeWords' # searchWholeWords

\* the highlighting effect of page p runs in this step
EffectRuns(p) == effectPending[p] /\ ~effectPending'[p]

BlankInputs == { in \in CallInputs : ~TrimNonEmpty(in.query) }

C15_FunctionsEmpty ==
    \A in \in BlankInputs :
        /\ \A mc \in BOOLEAN, ww \in BOOLEAN :
              searchInPage(in.items, in.query, mc, ww) = << >>
        /\ searchInPageAdvanced(in.items, in.query) = << >>
        /\ searchInPagePDFJS(in.items, in.query) = << >>

C15_BlankQuery ==
    /\ C15_FunctionsEmpty
    /\ \A p \in Pages :
          /\ \A q \in {searchQuery, debounceTimer.query} :
                ~TrimNonEmpty(q)
                   => /\ searchInPage(PageItems(p), q, searchMatchCase,
                                      searchWholeWords) = << >>
                      /\ searchInPageAdvanced(PageItems(p), q) = << >>
                      /\ searchInPagePDFJS(PageItems(p), q) = << >>
          /\ (~TrimNonEmpty(searchQuery) /\ ~effectPending[p])
                => /\ lastReport[p].matches = << >>
                   /\ CountOf(p) = 0
                   /\ \A i \in 1..Len(textLayer[p]) : textLayer[p][i] = << >>

\* a whitespace-only query is committed and every page's effect has run
\* under it and reported, on text that holds blanks
C15_Witness ==
    /\ searchQuery = <<" ">>
    /\ NoEffectPending
    /\ \A p \in Pages : textContent[p] /\ lastReport[p].reported
    /\ searchMatchCase /\ ~searchWholeWords

(***************************************************************************)
(* Definitions used by the properties of the search functions.             *)
(***************************************************************************)
\* the character c as the comparison sees it
Fold(c, matchCase) == IF matchCase THEN c ELSE ToLowerChar(c)

\* the query q occurs in the text t at 0-based offset j
Hit(t, q, matchCase, j) ==
    /\ j >= 0
    /\ j + Len(q) <= Len(t)
    /\ \A k \in 1..Len(q) : Fold(t[j + k], matchCase) = Fold(q[k], matchCase)

\* a call of searchInPage with a non-blank query has returned
SearchInPageReturned(wholeWords) ==
    /\ call.fn = "searchInPage"
    /\ call.wholeWords = wholeWords
    /\ TrimNonEmpty(call.query)

\* the end of the match before result k in the same text item, 0 if none
PrevEnd(res, k, len) ==
    IF k > 1 /\ res[k - 1].itemIndex = res[k].itemIndex
    THEN res[k - 1].matchIndex + len
    ELSE 0

\* the offset from which no match of item n was reported: the end of its
\* last match, 0 if it has none
ScanEnd(res, n, len) ==
    LET ks == { k \in 1..Len(res) : res[k].itemIndex = n }
    IN  IF ks = {} THEN 0
        ELSE res[CHOOSE k \in ks : \A j \in ks : j <= k].matchIndex + len

(***************************************************************************)
(* C16: in substring mode searchInPage returns, per text item, exactly the *)
(* occurrences of a left-to-right scan that resumes at the end of each     *)
(* match: every match is an occurrence of the query, the leftmost one at   *)
(* or after the end of the previous match of its item; no occurrence lies  *)
(* at or after the end of an item's last match; the result is ordered by   *)
(* item index, then offset.  "banana" with "ana" gives one match, at       *)
(* offset 1; "aa" with "a" gives two.                                      *)
(***************************************************************************)
C16_SubstringScan ==
    SearchInPageReturned(FALSE) =>
        LET res == call.result
            q   == call.query
            mc  == call.matchCase
        IN  /\ \A k \in 1..Len(res) :
                 LET m == res[k]
                     t == call.items[m.itemIndex + 1]
                 IN  /\ m.itemIndex \in 0..(Len(call.items) - 1)
                     /\ Hit(t, q, mc, m.matchIndex)
                     /\ m.text = Substring(t, m.matchIndex, m.matchIndex + Len(q))
                     /\ m.fullText = t
                     /\ m.matchIndex >= PrevEnd(res, k, Len(q))
                     /\ \A j \in PrevEnd(res, k, Len(q))..(m.matchIndex - 1) :
                           ~Hit(t, q, mc, j)
                     /\ k > 1 => res[k - 1].itemIndex <= m.itemIndex
            /\ \A n \in 1..Len(call.items) :
                 \A j \in ScanEnd(res, n - 1, Len(q))..Len(call.items[n]) :
                    ~Hit(call.items[n], q, mc, j)
            /\ (call.items = << <<"b", "a", "n", "a", "n", "a">> >>
                   /\ q = <<"a", "n", "a">>)
                  => Len(res) = 1 /\ res[1].matchIndex = 1
            /\ (call.items = << <<"a", "a">> >> /\ q = <<"a">>)
                  => Len(res) = 2

\* "banana" was searched for "ana" in substring mode: the occurrence at
\* offset 3 overlaps the match at offset 1
C16_Witness ==
    /\ SearchInPageReturned(FALSE)
    /\ call.items = << <<"b", "a", "n", "a", "n", "a">> >>
    /\ call.query = <<"a", "n", "a">>
    /\ Len(call.result) = 1
    /\ Hit(call.items[1], call.query, call.matchCase, 3)

(***************************************************************************)
(* C17: in whole-word mode searchInPage emits a match at an offset of a    *)
(* text item only if the query occurs there, inside that item, with a word *)
(* boundary immediately before and immediately after it; no match spans    *)
(* two items.  "cat category catalog" with "cat" gives exactly one match,  *)
(* at offset 0.                                                            *)
(***************************************************************************)
\* the character at 1-based position k of t exists and is a word character
WordAt(t, k) == k >= 1 /\ k <= Len(t) /\ IsWordChar(t[k])

\* a word starts or ends between the characters at 0-based offsets j - 1 and j
BoundaryAt(t, j) == WordAt(t, j) # WordAt(t, j + 1)

CatCategoryCatalog ==
    <<"c", "a", "t", " ", "c", "a", "t", "e", "g", "o", "r", "y", " ",
      "c", "a", "t", "a", "l", "o", "g">>

C17_WholeWordOnly ==
    SearchInPageReturned(TRUE) =>
        LET res == call.result
            q   == call.query
        IN  /\ \A k \in 1..Len(res) :
                 LET m == res[k]
                     t == call.items[m.itemIndex + 1]
                 IN  /\ m.itemIndex \in 0..(Len(call.items) - 1)
                     /\ Hit(t, q, call.matchCase, m.matchIndex)
                     /\ m.matchIndex + Len(m.text) <= Len(t)
                     /\ BoundaryAt(t, m.matchIndex)
                     /\ BoundaryAt(t, m.matchIndex + Len(q))
            /\ (call.items = <<CatCategoryCatalog>> /\ q = <<"c", "a", "t">>)
                  => Len(res) = 1 /\ res[1].matchIndex = 0

\* "cat category catalog" was searched for the whole word "cat"
C17_Witness ==
    /\ SearchInPageReturned(TRUE)
    /\ call.items = <<CatCategoryCatalog>>
    /\ call.query = <<"c", "a", "t">>
    /\ Len(call.result) = 1
    /\ Hit(call.items[1], call.query, call.matchCase, 4)
    /\ Hit(call.items[1], call.query, call.matchCase, 13)

(***************************************************************************)
(* C18: the query is matched as a literal string.  In whole-word mode      *)
(* every emitted match text equals the query character for character (up   *)
(* to case when case-insensitive), also for a query that holds regex       *)
(* metacharacters, and every occurrence of the query that has a word       *)
(* boundary immediately before and after it is emitted.                    *)
(***************************************************************************)
\* the match text m equals the query up to the case mode
SameText(m, q, matchCase) ==
    /\ Len(m) = Len(q)
    /\ \A k \in 1..Len(q) : Fold(m[k], matchCase) = Fold(q[k], matchCase)

\* the query occurs at offset j of t between two word boundaries
WordDelimitedHit(t, q, matchCase, j) ==
    /\ Hit(t, q, matchCase, j)
    /\ BoundaryAt(t, j)
    /\ BoundaryAt(t, j + Len(q))

C18_LiteralWholeWord ==
    SearchInPageReturned(TRUE) =>
        LET res == call.result
            q   == call.query
            mc  == call.matchCase
        IN  /\ \A k \in 1..Len(res) : SameText(res[k].text, q, mc)
            /\ \A n \in 1..Len(call.items) : \A j \in 0..Len(call.items[n]) :
                 WordDelimitedHit(call.items[n], q, mc, j)
                    => \E k \in 1..Len(res) :
                          res[k].itemIndex = n - 1 /\ res[k].matchIndex = j

(***************************************************************************)
(* C19: for every hit of the query in the concatenation of the text items  *)
(* searchInPageAdvanced emits one match, and nothing else: startItemIndex  *)
(* is the item that holds the hit's first character, endItemIndex the item *)
(* that holds its last character, involvedItems exactly the items that     *)
(* hold a character of the hit, startCharIndex and endCharIndex the        *)
(* offsets of the first and the last character in their items.             *)
(***************************************************************************)
\* the number of characters of the items before the n-th (1-based) item
RECURSIVE CharsBefore(_, _)
CharsBefore(items, n) ==
    IF n <= 1 THEN 0 ELSE Len(items[n - 1]) + CharsBefore(items, n - 1)

CharsIn(items) == CharsBefore(items, Len(items) + 1)

\* the 1-based item that holds the character at 0-based position g of the
\* concatenation
ItemHolding(items, g) ==
    CHOOSE n \in 1..Len(items) :
        CharsBefore(items, n) <= g /\ g < CharsBefore(items, n) + Len(items[n])

CharAt(items, g) ==
    items[ItemHolding(items, g)][g - CharsBefore(items, ItemHolding(items, g)) + 1]

\* the query occurs at position g of the concatenation, case-insensitively
HitAcross(items, q, g) ==
    /\ g >= 0
    /\ g + Len(q) <= CharsIn(items)
    /\ \A k \in 1..Len(q) : ToLowerChar(CharAt(items, g + k - 1)) = ToLowerChar(q[k])

\* match m describes the hit at position g of the concatenation
DescribesHit(m, items, q, g) ==
    LET first == ItemHolding(items, g)
        last  == ItemHolding(items, g + Len(q) - 1)
    IN  /\ m.matchIndex = g
        /\ m.matchEnd = g + Len(q)
        /\ m.startItemIndex = first - 1
        /\ m.endItemIndex = last - 1
        /\ m.startCharIndex = g - CharsBefore(items, first)
        /\ m.endCharIndex = g + Len(q) - 1 - CharsBefore(items, last)
        /\ { m.involvedItems[k] : k \in 1..Len(m.involvedItems) }
              = { ItemHolding(items, x) - 1 : x \in g..(g + Len(q) - 1) }
        /\ Len(m.involvedItems) = Cardinality({ ItemHolding(items, x) :
                                                  x \in g..(g + Len(q) - 1) })
        /\ Len(m.text) = Len(q)
        /\ \A k \in 1..Len(q) : m.text[k] = CharAt(items, g + k - 1)

AdvancedReturned ==
    /\ call.fn = "searchInPageAdvanced"
    /\ TrimNonEmpty(call.query)

\* one match per hit, in ascending position, each describing its hit
OneMatchPerHit ==
    LET res == call.result
    IN  /\ \A g \in 0..CharsIn(call.items) :
             HitAcross(call.items, call.query, g)
                => \E k \in 1..Len(res) : res[k].matchIndex = g
        /\ \A k \in 1..Len(res) :
             /\ HitAcross(call.items, call.query, res[k].matchIndex)
             /\ DescribesHit(res[k], call.items, call.query, res[k].matchIndex)
             /\ k > 1 => res[k - 1].matchIndex < res[k].matchIndex

HelloWorld == << <<"H", "e", "l">>, <<"l", "o", " ", "w", "o", "r">>, <<"l", "d">> >>

\* "lo wo" starts at position 3 of "Hello world", the first character of the
\* second item, and ends inside it
C19_AdvancedHits ==
    AdvancedReturned =>
        /\ OneMatchPerHit
        /\ (call.items = HelloWorld /\ call.query = <<"l", "o", " ", "w", "o">>)
              => /\ Len(call.result) = 1
                 /\ call.result[1].startItemIndex = 1
                 /\ call.result[1].endItemIndex = 1
                 /\ call.result[1].involvedItems = <<1>>

\* the claim with its example as stated: start 0, end 1, involved {0, 1}
C19_AsStated ==
    AdvancedReturned =>
        /\ OneMatchPerHit
        /\ (call.items = HelloWorld /\ call.query = <<"l", "o", " ", "w", "o">>)
              => /\ Len(call.result) = 1
                 /\ call.result[1].startItemIndex = 0
                 /\ call.result[1].endItemIndex = 1
                 /\ call.result[1].involvedItems = <<0, 1>>

\* "Hello world" in three items was searched for "LL": the one hit starts in
\* the first item and ends in the second
C19_Witness ==
    /\ AdvancedReturned
    /\ call.items = HelloWorld
    /\ call.query = <<"L", "L">>
    /\ Len(call.result) = 1
    /\ call.result[1].startItemIndex = 0
    /\ call.result[1].endItemIndex = 1
    /\ call.result[1].involvedItems = <<0, 1>>

(***************************************************************************)
(* C20: the per-item view and the cross-item view do not diverge: for a    *)
(* non-blank query the matches of searchInPage (case-insensitive,          *)
(* substring mode) are as many as the matches of searchInPageAdvanced that *)
(* lie inside one item, and at the same items and offsets.                 *)
(***************************************************************************)
InsideOneItem(m) == m.startItemIndex = m.endItemIndex

C20_ViewsAgree ==
    AdvancedReturned =>
        LET inside  == SelectSeq(call.result, InsideOneItem)
            perItem == searchInPage(call.items, call.query, FALSE, FALSE)
        IN  /\ Len(perItem) = Len(inside)
            /\ \A k \in 1..Len(perItem) :
                 /\ perItem[k].itemIndex = inside[k].startItemIndex
                 /\ perItem[k].matchIndex = inside[k].startCharIndex

(***************************************************************************)
(* C21: for a match that crosses item boundaries highlightSearchMatch      *)
(* highlights, in each involved text item, the range [start, end): start   *)
(* is the match's start offset in the first item and 0 elsewhere, end is   *)
(* the match's end in the last item and the item's length elsewhere; each  *)
(* range has 0 <= start < end <= length of the item, the lengths of the    *)
(* ranges sum to the length of the matched text, and the overlay of an     *)
(* item lies on that item's text div.                                      *)
(***************************************************************************)
\* the overlays among the children of the text layer
Overlays(children) ==
    { i \in 1..Len(children) : children[i].kind = "highlight" }

RECURSIVE SumOfRanges(_, _)
SumOfRanges(children, n) ==
    IF n = 0 THEN 0
    ELSE SumOfRanges(children, n - 1)
         + (IF children[n].kind = "highlight"
            THEN children[n].highlightEnd - children[n].highlightStart ELSE 0)

CrossItemHighlighted ==
    /\ call.fn = "highlightSearchMatch"
    /\ call.result.match.startItemIndex # call.result.match.endItemIndex

C21_CrossItemRanges ==
    CrossItemHighlighted =>
        LET m        == call.result.match
            children == call.result.children
            involved == { m.involvedItems[k] : k \in 1..Len(m.involvedItems) }
        IN  /\ \A n \in involved :
                 \E i \in Overlays(children) :
                    /\ children[i].itemIndex = n
                    /\ \A j \in Overlays(children) :
                          children[j].itemIndex = n => j = i
            /\ \A i \in Overlays(children) :
                 LET h   == children[i]
                     len == Len(call.items[h.itemIndex + 1])
                 IN  /\ h.itemIndex \in involved
                     /\ h.highlightStart = IF h.itemIndex = m.startItemIndex
                                           THEN m.startCharIndex ELSE 0
                     /\ h.highlightEnd = IF h.itemIndex = m.endItemIndex
                                         THEN m.endCharIndex + 1 ELSE len
                     /\ 0 <= h.highlightStart
                     /\ h.highlightStart < h.highlightEnd
                     /\ h.highlightEnd <= len
                     /\ h.styledFrom = h.itemIndex
            /\ SumOfRanges(children, Len(children)) = Len(m.text)

(***************************************************************************)
(* C22: for every text of a text div, also one that holds <, > or &, and   *)
(* every non-empty set of matches searchInPage returns for it:             *)
(* highlightTextInElement leaves the element's text content equal to the   *)
(* original text; clearHighlightsInElement after it leaves exactly the     *)
(* original text and no markup; clearHighlightsInElement twice leaves what *)
(* it leaves once.                                                         *)
(***************************************************************************)
\* the markup is one text node: no tag
NoMarkup(html) == \A i \in 1..Len(html) : html[i].t \in {"char", "ref"}

C22_HighlightRoundTrip ==
    call.fn = "highlightTextInElement" =>
        /\ TextContentOf(call.result.highlighted) = call.result.originalText
        /\ TextContentOf(call.result.cleared) = call.result.originalText
        /\ NoMarkup(call.result.cleared)
        /\ call.result.clearedTwice = call.result.cleared

(***************************************************************************)
(* C23: after any completed text layer build, at any scale and after any   *)
(* sequence of re-renders, the text layer holds exactly one div per text   *)
(* item, in the order of the items, and the div at position i carries      *)
(* data-text-index i and the text of item i: the i-th child, which the     *)
(* highlight effect pairs with the matches of itemIndex i, is the div      *)
(* built from item i.                                                      *)
(***************************************************************************)
TextLayerBuilt == call.fn = "buildTextLayer"

C23_OneDivPerItem ==
    TextLayerBuilt =>
        /\ Len(call.result) = Len(call.items)
        /\ \A i \in 1..Len(call.result) :
              /\ call.result[i].kind = "text"
              /\ call.result[i].index = i - 1
              /\ call.result[i].textContent = call.items[i].str

\* a page of two text items whose text layer was built at scale 1 and is
\* rebuilt at scale 2
C23_Witness ==
    /\ TextLayerBuilt
    /\ call.scale = 2
    /\ Len(call.items) = 2
    /\ Len(call.result) = 2
    /\ call.result[2].index = 1
    /\ call.result[2].fontSize = 10

(***************************************************************************)
(* C24: for every text item the div's width is width*scaleX when the item  *)
(* declares a width, whatever the declared value, 0 included, and          *)
(* characterCount*fontSize*0.6 otherwise; the div's height is              *)
(* height*scaleY when the item declares a height and fontSize otherwise.   *)
(***************************************************************************)
\* the length of the image of the vector (x, y) under the linear part of m
LengthUnder(m, x, y) ==
    Sqrt((m[1] * x + m[3] * y) * (m[1] * x + m[3] * y)
         + (m[2] * x + m[4] * y) * (m[2] * x + m[4] * y))

\* the transform from the units of item i to the pixels of the viewport
ComposedOf(i) == Transform(ViewportTransform(call.scale), call.items[i].transform)

DeclaredWidthOf(i) ==
    call.items[i].hasWidth =>
        call.result[i].width = call.items[i].width * LengthUnder(ComposedOf(i), 1, 0)

EstimatedWidthOf(i) ==
    ~call.items[i].hasWidth =>
        10 * call.result[i].width
            = 6 * Len(call.items[i].str) * LengthUnder(ComposedOf(i), 0, 1)

HeightOf(i) ==
    call.result[i].height
        = IF call.items[i].hasHeight
          THEN call.items[i].height * LengthUnder(ComposedOf(i), 0, 1)
          ELSE LengthUnder(ComposedOf(i), 0, 1)

C24_DeclaredSizeWins ==
    TextLayerBuilt =>
        \A i \in 1..Len(call.items) :
            DeclaredWidthOf(i) /\ EstimatedWidthOf(i) /\ HeightOf(i)

(***************************************************************************)
(* C25: for every item transform R and viewport transform V the div's      *)
(* position is the translation of the composed matrix V*R, the image of    *)
(* the item's origin under R followed by V: left is its x, top is its y    *)
(* less fontSize, where fontSize is the length of the image of the item's  *)
(* unit vertical; building twice from the same (R, V) gives the same       *)
(* position.                                                               *)
(***************************************************************************)
\* the image of the point (x, y) under the transform m
ApplyTransform(m, x, y) ==
    << m[1] * x + m[3] * y + m[5], m[2] * x + m[4] * y + m[6] >>

\* the image of the origin of item i under its transform, then the viewport's
OriginOf(i) ==
    LET inPage == ApplyTransform(call.items[i].transform, 0, 0)
    IN  ApplyTransform(ViewportTransform(call.scale), inPage[1], inPage[2])

\* the image of the point one unit above the origin of item i
UnitVerticalOf(i) ==
    LET inPage == ApplyTransform(call.items[i].transform, 0, 1)
    IN  ApplyTransform(ViewportTransform(call.scale), inPage[1], inPage[2])

FontSizeSquaredOf(i) ==
    (UnitVerticalOf(i)[1] - OriginOf(i)[1]) * (UnitVerticalOf(i)[1] - OriginOf(i)[1])
    + (UnitVerticalOf(i)[2] - OriginOf(i)[2]) * (UnitVerticalOf(i)[2] - OriginOf(i)[2])

\* the position of a div is the same in a second build from the same inputs
BuiltAgain ==
    BuildTextLayerDivs(call.result, call.items, ViewportTransform(call.scale))

MatchesOf(p) == IF InAggregate(p) THEN EntryOf(p).matches ELSE << >>

ExpectedMatches(p) ==
    IF textContent[p] /\ TrimNonEmpty(searchQuery)
    THEN searchInPage(PageItems(p), searchQuery, searchMatchCase, searchWholeWords)
    ELSE << >>

C26_MatchesFollowInputs ==
    AtRest => \A p \in Pages : MatchesOf(p) = ExpectedMatches(p)

(***************************************************************************)
(* C27: search is debounced by 300ms: a query text change is committed,    *)
(* and the pages re-match, only after 300 milliseconds have passed without *)
(* a further query text change.                                            *)
(***************************************************************************)
QueryCommitted == call'.fn = "timeout"

C27_QuietFor300ms ==
    [][QueryCommitted => call'.committedAt - call.lastChange >= 300]_vars

(***************************************************************************)
(* C28: a report by page p changes the resolution of global indices only   *)
(* from p's own range onward.  For every global index g below the sum of   *)
(* the match counts of the pages numbered below p,                         *)
(* updateSearchMatches(p, m) leaves the (page, in-page index) that g       *)
(* resolves to unchanged, and it leaves the match lists of all pages other *)
(* than p unchanged.                                                       *)
(***************************************************************************)
\* page p's effect calls onSearchMatches in this step
ReportBy(p) == effectPending[p] /\ ~effectPending'[p]

ResolutionBelowKept(p) ==
    \A g \in 0..(CountBelow(p) - 1) :
        scrollToSearchResult(allSearchMatches', g)
            = scrollToSearchResult(allSearchMatches, g)

OtherListsKept(p) ==
    \A q \in Pages \ {p} :
        /\ InAggregate(q)' = InAggregate(q)
        /\ MatchesOf(q)' = MatchesOf(q)

C28_ReportFrame ==
    [][\A p \in Pages : ReportBy(p) => ResolutionBelowKept(p) /\ OtherListsKept(p)]_vars

\* the last page has reported matches of its own while the first page holds
\* matches too: the indices of the first page lie below the reporting range
C28_Witness ==
    /\ NoEffectPending
    /\ CountOf(1) > 0
    /\ lastReport[NumPages].reported
    /\ Len(lastReport[NumPages].matches) > 0
    /\ CountOf(NumPages) = Len(lastReport[NumPages].matches)
    /\ scrollToSearchResult(allSearchMatches, CountOf(1) - 1).pageNumber = 1

(***************************************************************************)
(* C29: after handleSearchNext or handleSearchPrev with a total match      *)
(* count above 0, the viewer's current page is the page that owns the new  *)
(* cursor value, the page findPageForSearchResult returns for it.          *)
(***************************************************************************)
Navigated == nav'.op \in {"next", "prev"} /\ nav'.total > 0

C29_PageOfCursor ==
    [][Navigated =>
          currentPage' = findPageForSearchResult(allSearchMatches, currentSearchResult')]_vars

(***************************************************************************)
(* C30: the result count handed to the toolbar is eventually consistent.   *)
(* Once every page has reported its matches for the committed query and no *)
(* event is pending, the searchResultsCount prop last rendered to the      *)
(* Toolbar equals the current sum of the per-page match counts, so the     *)
(* next and previous buttons are enabled exactly when matches exist.       *)
(***************************************************************************)
AllReported == \A p \in Pages : lastReport[p].reported

C30_ToolbarCountConsistent ==
    (AtRest /\ AllReported) => toolbarSearchResultsCount = Total

(***************************************************************************)
(* C31: the latest render wins.  After any sequence of scale changes on a  *)
(* page, once all asynchronous operations have completed without failure,  *)
(* the page's canvas and text layer are those built by the most recently   *)
(* started renderPage call, for every order in which the getPage, render   *)
(* and getTextContent promises of overlapping renders resolve.             *)
(***************************************************************************)
\* every renderPage call of page p was made and has returned, none failed
Settled(p) ==
    /\ renderCalls[p] = 0
    /\ Len(renders[p]) > 0
    /\ \A r \in 1..Len(renders[p]) :
          renders[p][r].pc = "done" /\ renders[p][r].task # "failed"
    /\ ~error[p]

C31_LatestRenderWins ==
    \A p \in Pages :
        Settled(p) => /\ containerCanvases[p] = <<Len(renders[p])>>
                      /\ textLayerBuiltBy[p] = Len(renders[p])

(***************************************************************************)
(* C32: a page does not stay in the loading state forever.  If every       *)
(* render operation started for a mounted page eventually completes or is  *)
(* cancelled, the page's isLoading flag eventually becomes false, and it   *)
(* stays false until the next render starts: only a step that starts a     *)
(* renderPage invocation sets it.                                          *)
(***************************************************************************)
\* a renderPage invocation of page p gets past its guards in this step
RenderStarts(p) == Len(renders'[p]) = Len(renders[p]) + 1

C32_LoadingEnds ==
    /\ isLoading[ObservedPage] ~> ~isLoading[ObservedPage]
    /\ [][(~isLoading[ObservedPage] /\ isLoading'[ObservedPage])
              => RenderStarts(ObservedPage)]_vars

\* the loading flag is down after overlapping renders of which one was
\* cancelled and none failed
C32_Witness ==
    /\ ~isLoading[ObservedPage]
    /\ Settled(ObservedPage)
    /\ Len(renders[ObservedPage]) = MaxRenders
    /\ \E r \in 1..Len(renders[ObservedPage]) : renders[ObservedPage][r].task = "cancelled"

(***************************************************************************)
(* C33: a page's error state is absorbing.  Once a render failure that is  *)
(* not a cancellation has set the page's error, no later scale change or   *)
(* re-render request starts a new render for the page or clears the error, *)
(* and the page's entry in the match aggregate keeps the value it had when *)
(* the failure occurred.                                                   *)
(***************************************************************************)
ErrorKept(p) == error'[p] /\ ~RenderStarts(p)

\* the match list of page p, empty for a page without an entry, is kept
EntryKept(p) == MatchesOf(p)' = MatchesOf(p)

C33_ErrorAbsorbing ==
    [][\A p \in Pages : error[p] => ErrorKept(p) /\ EntryKept(p)]_vars

(***************************************************************************)
(* C34: the displayed document follows the latest URL.  If pdfUrl changes  *)
(* while an earlier load is in flight, then after all loads have completed *)
(* the viewer's document, numPages and downloadable file data are those of *)
(* the most recently requested URL, whichever load finishes last.          *)
(***************************************************************************)
AllLoadsCompleted ==
    /\ call.loads # << >>
    /\ \A l \in 1..Len(call.loads) : call.loads[l].pc = "done"

LatestUrl == call.loads[Len(call.loads)].url

C34_LatestUrlWins ==
    AllLoadsCompleted =>
        /\ call.document = LatestUrl
        /\ call.numPages = NumPagesOf(LatestUrl)
        /\ call.fileData = LatestUrl

(***************************************************************************)
(* C35: whenever a document with numPages >= 1 is loaded, currentPage      *)
(* satisfies 1 <= currentPage <= numPages after any sequence of toolbar    *)
(* page input, previous and next buttons, keyboard shortcuts, thumbnail    *)
(* clicks, scroll updates, search navigation and document reloads; a page  *)
(* change request outside [1, numPages] leaves currentPage unchanged.      *)
(***************************************************************************)
CurrentPageInRange ==
    (call.document # NoDocument /\ call.numPages >= 1)
        => (1 <= call.currentPage /\ call.currentPage <= call.numPages)

RequestOutOfRange ==
    /\ call'.fn = "handlePageChange"
    /\ call'.page < 1 \/ call'.page > call.numPages

C35_CurrentPageInRange ==
    /\ []CurrentPageInRange
    /\ [][RequestOutOfRange => call'.currentPage = call.currentPage]_vars

\* the document with fewer pages was loaded after the other one, and a
\* request for the other document's last page was made and refused
C35_Witness ==
    /\ Len(call.loads) >= 2
    /\ call.document = "a.pdf"
    /\ call.loads[1].url = "b.pdf" /\ call.loads[1].pc = "done"
    /\ call.fn = "handlePageChange"
    /\ call.page = NumPagesOf("b.pdf")
    /\ call.currentPage = 2

(***************************************************************************)
(* C36: the cursor is reset to 0 by toggling case sensitivity or whole     *)
(* words while the committed query is not blank and by a debounced query   *)
(* change to a blank query, and by nothing else: every other event except  *)
(* next and previous (a query change to another non-blank text, closing or *)
(* reopening the search panel, a page match report) leaves the cursor      *)
(* unchanged.                                                              *)
(***************************************************************************)
FlagResets == FlagToggled /\ TrimNonEmpty(searchQuery)

BlankCommit ==
    /\ debounceTimer.armed
    /\ ~debounceTimer'.armed
    /\ ~TrimNonEmpty(debounceTimer.query)

NextOrPrev == nav'.op \in {"next", "prev"}

C36_CursorResets ==
    [][/\ (FlagResets \/ BlankCommit) => currentSearchResult' = 0
       /\ ~(FlagResets \/ BlankCommit \/ NextOrPrev)
              => currentSearchResult' = currentSearchResult]_vars

\* a cursor that outlived the commit of another non-blank query: it is not
\* below the total of the query it now belongs to
C36_Witness ==
    /\ AtRest
    /\ TrimNonEmpty(searchQuery)
    /\ AllReported
    /\ currentSearchResult > 0
    /\ currentSearchResult >= Total

====
